---- MODULE Spec2Model ----
(***************************************************************************)
(* Identity resolution, state merge and flush engine of the gpstracking    *)
(* application (portal2025/gpstracking/util_db.py, class GpsTrackingUtilDB)*)
(* together with the Field Mapper (portal2025/utils/gen_conv.py) and the   *)
(* storage constraints of portal2025/gpstracking/models.py.                *)
(*                                                                         *)
(* Strings are sequences of tokens: "ICAO-A1" is <<"ICAO", "-", "A1">>,    *)
(* the identkey "MMSI_A1" is <<"MMSI", "_", "A1">>.  The empty sequence    *)
(* stands for both None and "" (the code only tests their truthiness).     *)
(* A type code / identtype is a single token, "" when absent.              *)
(***************************************************************************)
EXTENDS Integers, Sequences, FiniteSets, TLC

VARIABLES
    trackers,        \* table Tracker: id -> row
    identifiers,     \* table TrackerIdentifier: set of rows
    messages,        \* table TrackerMessage: set of rows
    tracker_cache,   \* GpsTrackingUtilDB.tracker_cache: identkey -> TrackerIdentifier
    tracker_buffer,  \* GpsTrackingUtilDB.tracker_buffer: tracker id -> pending entry
    message_queue,   \* GpsTrackingUtilDB.message_queue
    refresh,         \* the cache-refresh thread: its position and its local new_cache
    last,            \* history: the most recent operation, its input and its effect
    sym,             \* two independent stores, used to compare two orders of calls
    threads,         \* the flush-loop thread: running or ended by an exception
    mapper,         \* one call of remap_keys: its arguments and what it returned
    membership,     \* TrackerGroup.identifier_types and Tracker.groups
    mqtt,           \* utils/mqtt.py: the registry mqtt_clients and the last call of start_publisher or start_subscriber
    drain,          \* the positions of the ingestion threads and the flush thread around queue and buffer
    race            \* the positions of two ingestion threads inside the resolver

vars == <<trackers, identifiers, messages, tracker_cache, tracker_buffer,
          message_queue, refresh, last, sym, threads, mapper, membership, mqtt, drain, race>>

(***************************************************************************)
(* Bounds of the exploration.                                              *)
(***************************************************************************)
MaxTrackers == 3
MaxQueue == 3

(***************************************************************************)
(* Strings.                                                                *)
(***************************************************************************)
\* str.upper() on one token
Up(tok) ==
    CASE tok = "a1" -> "A1"
      [] tok = "mmsi" -> "MMSI"
      [] tok = "icao" -> "ICAO"
      [] tok = "adsb" -> "ADSB"
      [] tok = "x7" -> "X7"
      [] OTHER -> tok

\* str.upper()
upper(str) == [i \in DOMAIN str |-> Up(str[i])]

\* uniqueId.replace("ADSB", "ICAO")
replace_ADSB(str) == [i \in DOMAIN str |-> IF str[i] = "ADSB" THEN "ICAO" ELSE str[i]]

\* uniqueId.split("-", 1): the list of parts, split at the first "-" only
split_once(str) ==
    LET dashes == {i \in DOMAIN str : str[i] = "-"}
    IN  IF dashes = {}
        THEN <<str>>
        ELSE LET i == CHOOSE d \in dashes : \A e \in dashes : d <= e
             IN  <<SubSeq(str, 1, i - 1), SubSeq(str, i + 1, Len(str))>>

\* f"{code}_{external_id}"
key_of(code, external_id) == <<code, "_">> \o external_id

(***************************************************************************)
(* Durable storage (gpstracking/models.py).                                *)
(***************************************************************************)
\* TrackerIdentifierType rows: the admin-managed vocabulary (codes).
TypeCodes == {"MMSI", "ICAO", "TCUID"}

\* "no TrackerIdentifier" (None)
NoTI == [identkey |-> <<>>, identifier_type |-> "", external_id |-> <<>>, tracker |-> 0]

NoneInt == 0 - 1
NoneStr == "None"
NonePoint == <<>>

\* Tracker(): the row Tracker.objects.create() inserts (field defaults)
NewTrackerRow ==
    [custom_name |-> NoneStr, icon |-> "default", ais_name |-> NoneStr,
     speed |-> NoneInt, position |-> NonePoint,
     position_timestamp |-> NoneInt, meta_timestamp |-> NoneInt]

\* The store a call works on: the tables and the process-wide cache.
Store(t, i, c) == [trackers |-> t, identifiers |-> i, tracker_cache |-> c]

EmptyStore == Store(<<>>, {}, <<>>)

\* TrackerIdentifier.objects.filter(identkey=identkey).first()
db_first_by_identkey(s, identkey) ==
    LET hit == {ti \in s.identifiers : ti.identkey = identkey}
    IN  IF hit = {} THEN NoTI ELSE CHOOSE ti \in hit : TRUE

\* variant: a creation that inserts two rows and returns the second
tracker_create_pair(s) ==
    [s |-> [s EXCEPT !.trackers = Append(Append(s.trackers, NewTrackerRow), NewTrackerRow)],
     tid |-> Len(s.trackers) + 2]

\* Tracker.objects.create(): the id is fresh (uuid4)
tracker_create(s) ==
    LET tid == Len(s.trackers) + 1
    IN  [s |-> [s EXCEPT !.trackers = Append(s.trackers, NewTrackerRow)], tid |-> tid]

(***************************************************************************)
(* Identity cache lookup and identifier creation.                          *)
(***************************************************************************)
\* variant: a lookup that reads the cache only, without the storage fallback
cache_only_lookup(s, identkey) ==
    IF identkey \in DOMAIN s.tracker_cache THEN s.tracker_cache[identkey] ELSE NoTI

find_tracker_identifier_by_identkey(s, identkey) ==
    IF identkey = <<>>
    THEN NoTI
    ELSE IF identkey \in DOMAIN s.tracker_cache
         THEN s.tracker_cache[identkey]
         ELSE db_first_by_identkey(s, identkey)

\* TrackerIdentifier.save(): external_id upper-cased, identkey derived
saved_identifier(tracker, code, external_id) ==
    [identkey |-> upper(key_of(code, upper(external_id))),
     identifier_type |-> code,
     external_id |-> upper(external_id),
     tracker |-> tracker]

\* variant: a table without unique constraints
never_violates(s, row) == FALSE

\* the unique constraints of TrackerIdentifier: identkey, (external_id, identifier_type)
violates_unique(s, row) ==
    \E ti \in s.identifiers :
        \/ ti.identkey = row.identkey
        \/ ti.external_id = row.external_id /\ ti.identifier_type = row.identifier_type

\* rank of a token in the collation of Meta.ordering = ['identkey']
TokenRank(tok) ==
    CASE tok = "A1" -> 1 [] tok = "ICAO" -> 2 [] tok = "X7" -> 3 [] OTHER -> 0

\* .filter(tracker=tracker, identifier_type=identifier_type).first()
first_of_tracker_and_type(s, tracker, code) ==
    LET hit == {ti \in s.identifiers : ti.tracker = tracker /\ ti.identifier_type = code}
    IN  IF hit = {}
        THEN NoTI
        ELSE CHOOSE ti \in hit :
                 \A o \in hit : TokenRank(ti.external_id[1]) <= TokenRank(o.external_id[1])

\* Result of a step that may raise: the store it leaves, what it returns, the exception.
Ret(s, ti, exc) == [s |-> s, ti |-> ti, exc |-> exc]

\* variant: a creation that replaces the tracker's identifiers of that type
create_replacing(s, tracker, code, external_id) ==
    IF code \notin TypeCodes
    THEN Ret(s, NoTI, "DoesNotExist")
    ELSE LET row == saved_identifier(tracker, code, external_id)
             kept == {ti \in s.identifiers :
                         ~(ti.tracker = tracker /\ ti.identifier_type = code)}
         IN  Ret([s EXCEPT !.identifiers = kept \cup {row}], row, "")

\* variant: a creation that does not look the type code up in the vocabulary
create_of_any_type(s, tracker, code, external_id) ==
    LET row == saved_identifier(tracker, code, external_id)
    IN  IF violates_unique(s, row)
        THEN Ret(s, first_of_tracker_and_type(s, tracker, code), "")
        ELSE Ret([s EXCEPT !.identifiers = @ \cup {row}], row, "")

create_tracker_identifier(s, tracker, code, external_id) ==
    IF code \notin TypeCodes
    THEN Ret(s, NoTI, "DoesNotExist")
    ELSE LET row == saved_identifier(tracker, code, external_id)
         IN  IF violates_unique(s, row)
             THEN Ret(s, first_of_tracker_and_type(s, tracker, code), "")
             ELSE Ret([s EXCEPT !.identifiers = @ \cup {row}], row, "")

SecondaryPrefixes == {"ICAO", "MMSI", "DMR", "GMS"}

\* variant: a linker that never decomposes the vendor id
no_additional_identifiers(s, uniqueId, tracker) == Ret(s, NoTI, "")

\* variant: a linker that does not rewrite ADSB to ICAO
additional_identifiers_without_ADSB(s, uniqueId, tracker) ==
    LET tc_split == split_once(uniqueId)
    IN  IF Len(tc_split) > 1 /\ Len(tc_split[1]) = 1 /\ tc_split[1][1] \in SecondaryPrefixes
        THEN LET prefix == IF tc_split[1][1] = "DMR" THEN "DMR_RN" ELSE tc_split[1][1]
                 ident == tc_split[2]
             IN  IF find_tracker_identifier_by_identkey(s, key_of(prefix, ident)) = NoTI
                 THEN create_tracker_identifier(s, tracker, prefix, ident)
                 ELSE Ret(s, NoTI, "")
        ELSE Ret(s, NoTI, "")

additional_identifiers_from_uniqueId(s, uniqueId, tracker) ==
    LET tc_split == split_once(replace_ADSB(uniqueId))
    IN  IF Len(tc_split) > 1 /\ Len(tc_split[1]) = 1 /\ tc_split[1][1] \in SecondaryPrefixes
        THEN LET prefix == IF tc_split[1][1] = "DMR" THEN "DMR_RN" ELSE tc_split[1][1]
                 ident == tc_split[2]
             IN  IF find_tracker_identifier_by_identkey(s, key_of(prefix, ident)) = NoTI
                 THEN create_tracker_identifier(s, tracker, prefix, ident)
                 ELSE Ret(s, NoTI, "")
        ELSE Ret(s, NoTI, "")

\* create_tracker_identifier(tracker, "TCUID", tc) followed by the decomposition
link_vendor_alias(s, tracker, tc_unique_id) ==
    LET r == create_tracker_identifier(s, tracker, "TCUID", tc_unique_id)
    IN  IF r.exc # ""
        THEN r
        ELSE additional_identifiers_from_uniqueId(r.s, tc_unique_id, tracker)

(***************************************************************************)
(* The resolver.  Every exception is caught at the end of the function and *)
(* turned into the result None; what was written before it stays written.  *)
(***************************************************************************)
get_or_create_tracker_identifier(s, identity) ==
    LET identkey == upper(identity.identkey)
        tc_unique_id == upper(identity.tcUniqueId)
        identtype == Up(identity.identtype)
        identid == upper(identity.identid)
    IN  IF identtype = "" \/ identid = <<>>
        THEN Ret(s, NoTI, "")
        ELSE
        LET tcuid_identkey == IF tc_unique_id # <<>> THEN key_of("TCUID", tc_unique_id) ELSE <<>>
            ti_identkey == find_tracker_identifier_by_identkey(s, identkey)
            ti_tc_uid == find_tracker_identifier_by_identkey(s, tcuid_identkey)
        IN  IF ti_identkey # NoTI /\ ti_tc_uid = NoTI /\ tcuid_identkey # <<>>
            THEN LET r == link_vendor_alias(s, ti_identkey.tracker, tc_unique_id)
                 IN  IF r.exc # "" THEN Ret(r.s, NoTI, r.exc) ELSE Ret(r.s, ti_identkey, "")
            ELSE IF ti_tc_uid # NoTI /\ ti_identkey = NoTI /\ identkey # <<>>
            THEN LET r == create_tracker_identifier(s, ti_tc_uid.tracker, identtype, identid)
                 IN  IF r.exc # "" THEN Ret(r.s, NoTI, r.exc) ELSE r
            ELSE IF ti_identkey = NoTI /\ ti_tc_uid = NoTI
                    /\ (identkey # <<>> \/ tcuid_identkey # <<>>)
            THEN LET t == tracker_create(s)
                     r1 == IF identkey # <<>>
                           THEN create_tracker_identifier(t.s, t.tid, identtype, identid)
                           ELSE Ret(t.s, NoTI, "")
                     r2 == IF r1.exc = "" /\ tcuid_identkey # <<>>
                           THEN link_vendor_alias(r1.s, t.tid, tc_unique_id)
                           ELSE Ret(r1.s, NoTI, r1.exc)
                 IN  IF r2.exc # "" THEN Ret(r2.s, NoTI, r2.exc) ELSE Ret(r2.s, r1.ti, "")
            ELSE IF ti_identkey = NoTI
            THEN Ret(s, NoTI, "AttributeError")    \* None.tracker
            ELSE Ret(s, ti_identkey, "")

(***************************************************************************)
(* Field Mapper (utils/gen_conv.py).  A field map is a function from key   *)
(* names to scalar values; a payload can hold one level of nested dicts,   *)
(* which flatten_multilevel turns into dotted keys.                        *)
(***************************************************************************)
\* TrackerDecoderField rows, name -> dbfield ("" when the dbfield is left blank),
\* as get_decoder_field_mapping loads them (blank becomes None)
DecoderFields ==
    [speed |-> "speed", fixtime |-> "position_timestamp", metatime |-> "meta_timestamp",
     name |-> "custom_name", category |-> "icon", shipname |-> "ais_name",
     rssi |-> "signal", battery |-> ""]

IntKeys == {"speed", "fixtime", "metatime", "latitude", "longitude", "rssi", "battery",
            "foo", "signal", "position_timestamp", "meta_timestamp", "id",
            "attributes.battery", "attributes.rssi"}

\* the value None of a field, by the field's type
NoneOf(k) == IF k \in IntKeys THEN NoneInt ELSE IF k = "position" THEN NonePoint ELSE NoneStr

\* the keys of a payload whose value is a dict
NestedKeys == {"attributes"}

\* f"{prefix}.{k}"
Dotted == [attributes |-> [battery |-> "attributes.battery", rssi |-> "attributes.rssi"]]

\* the order in which the items of a flattened payload are visited: the order of
\* the decoder's payload, a nested dict expanded in its place
KeyOrder ==
    <<"speed", "fixtime", "metatime", "name", "category", "shipname", "rssi", "battery",
      "latitude", "longitude", "foo", "attributes.battery", "attributes.rssi">>

KeyRank(k) == CHOOSE i \in 1..Len(KeyOrder) : KeyOrder[i] = k

\* flatten_multilevel(data, prefix=''): a scalar keeps its key, the items of a
\* nested dict get dotted keys, an empty nested dict leaves nothing
flatten_multilevel(data) ==
    LET scalars == DOMAIN data \ NestedKeys
        inner == UNION {{<<prefix, k>> : k \in DOMAIN data[prefix]} :
                           prefix \in DOMAIN data \cap NestedKeys}
    IN  [full_key \in scalars \cup {Dotted[x[1]][x[2]] : x \in inner} |->
            IF full_key \in scalars
            THEN data[full_key]
            ELSE LET x == CHOOSE x \in inner : Dotted[x[1]][x[2]] = full_key
                 IN  data[x[1]][x[2]]]

\* value is None
is_none(k, value) == value = NoneOf(k)

\* remap_keys(data, mapping)[0]; the empty map stands for the None it returns
\* when no key matched; of two keys with the same target the later one stays
remap_keys(data, mapping) ==
    LET flat_data == flatten_multilevel(data)
        kept == {k \in DOMAIN flat_data :
                    /\ k \in DOMAIN mapping
                    /\ mapping[k] # ""
                    /\ ~is_none(k, flat_data[k])}
    IN  [new_key \in {mapping[k] : k \in kept} |->
            flat_data[CHOOSE k \in kept :
                         /\ mapping[k] = new_key
                         /\ \A o \in kept : mapping[o] = new_key => KeyRank(o) <= KeyRank(k)]]

\* variant: the keys that produced nothing are reported, those with a blank
\* dbfield included
unproductive_keys(data, mapping) ==
    {k \in DOMAIN flatten_multilevel(data) : k \notin DOMAIN mapping \/ mapping[k] = ""}

\* remap_keys(data, mapping)[1], as a set
unmapped_keys(data, mapping) == {k \in DOMAIN flatten_multilevel(data) : k \notin DOMAIN mapping}

(***************************************************************************)
(* State Merge Buffer (process_mqtt_message, the part under the lock).     *)
(***************************************************************************)
PositionalKeys == {"altitude", "speed", "course", "position", "position_timestamp"}

\* the order in which tracker_entry.items() yields the keys: the order of the
\* decoder's payload, "position" appended last
FieldOrder ==
    <<"speed", "position_timestamp", "meta_timestamp", "custom_name", "icon", "ais_name",
      "signal", "position">>

\* existing.get(k) is None
Lacks(entry, k) == k \notin DOMAIN entry

\* variant: a merge that tests the timestamps for the keys the entry lacks too
accepts_by_recency_only(existing, k, position_ts, meta_ts) ==
    \/ /\ k \in PositionalKeys
       /\ \/ Lacks(existing, "position_timestamp")
          \/ existing["position_timestamp"] <= position_ts
    \/ \/ Lacks(existing, "meta_timestamp")
       \/ existing["meta_timestamp"] <= meta_ts

\* variant: a merge that takes a value only from a strictly newer envelope
accepts_newer_only(existing, k, position_ts, meta_ts) ==
    \/ Lacks(existing, k)
    \/ /\ k \in PositionalKeys
       /\ \/ Lacks(existing, "position_timestamp")
          \/ existing["position_timestamp"] < position_ts
    \/ \/ Lacks(existing, "meta_timestamp")
       \/ existing["meta_timestamp"] < meta_ts

\* the test of one key k of the incoming entry against the pending entry
accepts(existing, k, position_ts, meta_ts) ==
    \/ Lacks(existing, k)
    \/ /\ k \in PositionalKeys
       /\ \/ Lacks(existing, "position_timestamp")
          \/ existing["position_timestamp"] <= position_ts
    \/ \/ Lacks(existing, "meta_timestamp")
       \/ existing["meta_timestamp"] <= meta_ts

\* a timestamp that is not a number (a JSON string such as "abc")
NotANumber == 0 - 2

\* the test of key k raises TypeError: an int of the pending entry is compared
\* with a timestamp that is not a number
raises_at(existing, k, position_ts, meta_ts) ==
    LET position_raises ==
            /\ k \in PositionalKeys
            /\ ~Lacks(existing, "position_timestamp")
            /\ position_ts = NotANumber
        position_accepts ==
            /\ k \in PositionalKeys
            /\ \/ Lacks(existing, "position_timestamp")
               \/ existing["position_timestamp"] <= position_ts
    IN  /\ ~Lacks(existing, k)
        /\ \/ position_raises
           \/ /\ ~position_accepts
              /\ ~Lacks(existing, "meta_timestamp")
              /\ meta_ts = NotANumber

\* existing[k] = v
put(entry, k, v) == [x \in DOMAIN entry \cup {k} |-> IF x = k THEN v ELSE entry[x]]

\* the for loop over tracker_entry.items(), from position i of FieldOrder on
RECURSIVE merge_from(_, _, _, _, _)
merge_from(existing, tracker_entry, position_ts, meta_ts, i) ==
    IF i > Len(FieldOrder)
    THEN existing
    ELSE LET k == FieldOrder[i]
             next == IF k \in DOMAIN tracker_entry
                        /\ accepts(existing, k, position_ts, meta_ts)
                     THEN put(existing, k, tracker_entry[k])
                     ELSE existing
         IN  IF k \in DOMAIN tracker_entry /\ raises_at(existing, k, position_ts, meta_ts)
             THEN existing    \* the loop ends here, the keys written so far stay
             ELSE merge_from(next, tracker_entry, position_ts, meta_ts, i + 1)

\* the for loop raises TypeError at some key, from position i of FieldOrder on
RECURSIVE merge_raises_from(_, _, _, _, _)
merge_raises_from(existing, tracker_entry, position_ts, meta_ts, i) ==
    IF i > Len(FieldOrder)
    THEN FALSE
    ELSE LET k == FieldOrder[i]
             next == IF k \in DOMAIN tracker_entry
                        /\ accepts(existing, k, position_ts, meta_ts)
                     THEN put(existing, k, tracker_entry[k])
                     ELSE existing
         IN  IF k \in DOMAIN tracker_entry /\ raises_at(existing, k, position_ts, meta_ts)
             THEN TRUE
             ELSE merge_raises_from(next, tracker_entry, position_ts, meta_ts, i + 1)

\* x or received, for a timestamp of the entry
or_received(entry, k, received) ==
    IF k \in DOMAIN entry /\ entry[k] # 0 THEN entry[k] ELSE received

\* the buffer after tracker_entry is accumulated for tracker tid
accumulate(buffer, tid, tracker_entry, received) ==
    LET position_ts == or_received(tracker_entry, "position_timestamp", received)
        meta_ts == or_received(tracker_entry, "meta_timestamp", received)
    IN  IF tid \notin DOMAIN buffer
        THEN (tid :> put(tracker_entry, "id", tid)) @@ buffer
        ELSE [buffer EXCEPT ![tid] = merge_from(@, tracker_entry, position_ts, meta_ts, 1)]

\* accumulating tracker_entry for tracker tid raises TypeError
accumulate_raises(buffer, tid, tracker_entry, received) ==
    /\ tid \in DOMAIN buffer
    /\ merge_raises_from(buffer[tid], tracker_entry,
                         or_received(tracker_entry, "position_timestamp", received),
                         or_received(tracker_entry, "meta_timestamp", received), 1)

(***************************************************************************)
(* Flush (save_buffer_to_db).                                              *)
(***************************************************************************)
\* variant: a bulk insert without ignore_conflicts, the batch fails as a whole on
\* a primary-key conflict
bulk_create_or_fail(table, items) ==
    LET keys == {items[i].sha256_key : i \in DOMAIN items}
    IN  IF \/ \E row \in table : row.sha256_key \in keys
           \/ Cardinality(keys) < Len(items)
        THEN table
        ELSE table \cup {items[i] : i \in DOMAIN items}

\* TrackerMessage.objects.bulk_create(items, ignore_conflicts=True): a row whose
\* primary key sha256_key is taken already is skipped
RECURSIVE bulk_create(_, _)
bulk_create(table, items) ==
    IF items = <<>>
    THEN table
    ELSE LET item == Head(items)
             taken == \E row \in table : row.sha256_key = item.sha256_key
         IN  bulk_create(IF taken THEN table ELSE table \cup {item}, Tail(items))

\* {f.name for f in Tracker._meta.get_fields()}, the columns modelled
ValidFields == {"id"} \cup DOMAIN NewTrackerRow

StringFields == {"custom_name", "icon", "ais_name"}

\* str.strip()
strip(str) == IF str = " " THEN "" ELSE str

\* val is None or (isinstance(val, str) and val.strip() == "")
skipped_value(key, val) ==
    \/ val = NoneOf(key)
    \/ key \in StringFields /\ strip(val) = ""

FillOnlyFields == {"custom_name", "icon"}

\* variant: every column is overwritten
overwriting_value(key, current_value, val) == val

\* the value of column key after the loop body ran for (key, val)
flushed_value(key, current_value, val) ==
    IF key \in FillOnlyFields
    THEN IF current_value = NoneStr \/ strip(current_value) = "" THEN val ELSE current_value
    ELSE val

\* the Tracker row after the loop over item.items() and the bulk update
apply_item(row, item) ==
    [key \in DOMAIN row |->
        IF key \in DOMAIN item /\ key \in ValidFields /\ ~skipped_value(key, item[key])
        THEN flushed_value(key, row[key], item[key])
        ELSE row[key]]

\* the Tracker table after the pending entries of buffer are written
apply_buffer(table, buffer) ==
    [tid \in DOMAIN table |->
        IF tid \in DOMAIN buffer THEN apply_item(table[tid], buffer[tid]) ELSE table[tid]]

(***************************************************************************)
(* Inputs.                                                                 *)
(***************************************************************************)
Identity(k, ty, id, tc) == [identkey |-> k, identtype |-> ty, identid |-> id, tcUniqueId |-> tc]

NoIdentity == Identity(<<>>, "", <<>>, <<>>)

\* the identkey the decoders send along: f"{identtype}_{identid}"
DeclaredKey(ty, id) == IF ty = "" \/ id = <<>> THEN <<>> ELSE key_of(ty, id)

VendorIds == {<<>>, <<"X7">>, <<"ADSB", "-", "A1">>}

\* Identities a resolve call is given: the decoders' shape (identkey derived from
\* identtype and identid) in either case, with or without a vendor id; an identity
\* without the identkey field; one with the vendor id only; one of a type (GMS)
\* that is not in the vocabulary.
Identities ==
    {Identity(DeclaredKey("MMSI", <<"A1">>), "MMSI", <<"A1">>, tc) : tc \in VendorIds}
    \cup {Identity(DeclaredKey("mmsi", <<"a1">>), "mmsi", <<"a1">>, <<>>)}
    \cup {Identity(DeclaredKey("ICAO", <<"A1">>), "ICAO", <<"A1">>, tc) :
             tc \in {<<>>, <<"ADSB", "-", "A1">>}}
    \cup {Identity(DeclaredKey("GMS", <<"A1">>), "GMS", <<"A1">>, tc) :
             tc \in {<<>>, <<"X7">>}}
    \cup {Identity(<<>>, "MMSI", <<"A1">>, tc) : tc \in VendorIds}
    \cup {Identity(<<>>, "", <<>>, <<"X7">>)}

\* A decoded envelope: msghash "" and received 0 stand for a missing field.
Envelope(msghash, received, identity, data) ==
    [msghash |-> msghash, received |-> received, identity |-> identity, data |-> data]

NoData == [k \in {} |-> 0]

NoMsg == Envelope("", 0, NoIdentity, NoData)

(***************************************************************************)
(* Tracker groups (gpstracking/models.py, gpstracking/signals.py).         *)
(***************************************************************************)
\* TrackerGroup rows
GroupIds == {"fleet", "harbour"}

\* the identifier types that groups are associated with
GroupTypeCodes == {"MMSI", "ICAO"}

\* the last change of the groups was not a removal of a type or an identifier
NoChange == [op |-> "", code |-> "", gone |-> {}]

\* TrackerGroup.identifier_types empty, Tracker.groups empty; explicit holds
\* the row of Tracker.groups that a person added by hand last, change the
\* rows that the last removal of a type or an identifier took away
NoGroups ==
    [identifier_types |-> [g \in GroupIds |-> {}], trackers |-> {}, explicit |-> {},
     change |-> NoChange]

(***************************************************************************)
(* The MQTT client registry (utils/mqtt.py).                               *)
(***************************************************************************)
ClientNames == {"ais", "traccar"}

Topics == {"in/ais", "in/traccar"}

\* mqtt_clients has no entry under the name
NoClient == [registered |-> FALSE, publish |-> "", subscribed |-> ""]

\* no call of start_publisher or start_subscriber was made yet
NoMqttCall == [op |-> "", client_name |-> "", topic |-> "", reused |-> FALSE,
               returned |-> "", published_on |-> ""]

\* mqtt_clients = {}
NoMqtt == [clients |-> [n \in ClientNames |-> NoClient], call |-> NoMqttCall]

(***************************************************************************)
(* The threads around message_queue and tracker_buffer, step by step.      *)
(***************************************************************************)
\* the flush loops that start-up can start: the one of GpstrackingConfig.ready
\* and the one of start_mqtt_subscriber
Flushers == {"ready", "subscriber"}

\* before start-up: no flush loop runs and no ingestion thread delivers;
\* in_batches and in_flushes count the drained batches each message was in
NoDrain ==
    [started |-> FALSE, subscribed |-> FALSE,
     cur |-> [t \in {"mqtt", "traccar"} |-> 0],
     flush_pc |-> [f \in Flushers |-> "off"],
     msg_items |-> [f \in Flushers |-> <<>>],
     tracker_items |-> [f \in Flushers |-> <<>>],
     sent |-> {}, merged |-> {},
     in_batches |-> [i \in 1..MaxQueue |-> 0], in_flushes |-> [i \in 1..MaxQueue |-> 0]]

\* no thread is inside get_or_create_tracker_identifier
NoRace ==
    [pc |-> [t \in {"mqtt", "traccar"} |-> "idle"],
     identity |-> [t \in {"mqtt", "traccar"} |-> NoIdentity],
     found |-> [t \in {"mqtt", "traccar"} |-> NoTI],
     tracker |-> [t \in {"mqtt", "traccar"} |-> 0],
     result |-> [t \in {"mqtt", "traccar"} |-> NoTI]]

\* no call of remap_keys is being looked at
NoCall == [pc |-> "none", data |-> NoData, mapping |-> NoData, result |-> NoData,
           unmapped |-> {}]

\* a payload holding key k with one of the values vals, or not holding it
Opt(k, vals) == {NoData} \cup {k :> v : v \in vals}

\* The storage operations that fail during one flush tick: the bulk insert of
\* the messages, the query that loads the Tracker rows, the bulk update of the
\* groups with the field sets in bulk, the individual save of the trackers in save.
Faults(insert, load, bulk, save) == [insert |-> insert, load |-> load, bulk |-> bulk, save |-> save]

NoFaults == Faults(FALSE, FALSE, {}, {})

(***************************************************************************)
(* History of the most recent operation.                                   *)
(***************************************************************************)
NoLast ==
    [op |-> "init", identity |-> NoIdentity, result |-> NoTI, exc |-> "",
     hit_declared |-> FALSE, hit_alias |-> FALSE,
     new_trackers |-> 0, new_identifiers |-> {},
     again |-> FALSE, prev_result |-> NoTI,
     msg |-> NoMsg, queued |-> FALSE, tid |-> 0, pending_before |-> {},
     drained |-> <<>>, flushed |-> <<>>, rows_before |-> <<>>, sent |-> {},
     bulk_updates |-> {}, saves |-> {}]

CurrentStore == Store(trackers, identifiers, tracker_cache)

\* what a resolve call on store s leaves in the history
ResolveRecord(s, identity, r, prev) ==
    [NoLast EXCEPT
        !.sent = prev.sent,
        !.op = "resolve", !.identity = identity, !.result = r.ti, !.exc = r.exc,
        !.hit_declared =
            find_tracker_identifier_by_identkey(s, upper(identity.identkey)) # NoTI,
        !.hit_alias =
            identity.tcUniqueId # <<>> /\
            find_tracker_identifier_by_identkey(
                s, key_of("TCUID", upper(identity.tcUniqueId))) # NoTI,
        !.new_trackers = Len(r.s.trackers) - Len(s.trackers),
        !.new_identifiers = r.s.identifiers \ s.identifiers,
        !.again = (prev.op = "resolve" /\ prev.identity = identity),
        !.prev_result = prev.result]

(***************************************************************************)
(* The cache-refresh thread (refresh_tracker_cache, run by the loop of     *)
(* start_tracker_cache_loop).  The dict comprehension fills a local map    *)
(* row by row; the assignment publishes it.                                *)
(***************************************************************************)
IdleRefresh == [pc |-> "idle", rows |-> {}, scanned |-> {}, new_cache |-> <<>>,
                published |-> {}]

\* {ti.identkey: ti for ti in rows}
map_of_rows(rows) ==
    [k \in {ti.identkey : ti \in rows} |-> CHOOSE ti \in rows : ti.identkey = k]

\* variant: the shared map is cleared and filled in place
cache_filled_in_place(shared, building) == building

\* the map GpsTrackingUtilDB.tracker_cache names while new_cache is being built
cache_while_building(shared, building) == shared

RefreshScan ==
    /\ refresh.pc = "idle"
    /\ refresh' = [refresh EXCEPT !.pc = "build", !.rows = identifiers,
                                  !.scanned = identifiers, !.new_cache = <<>>]
    /\ last' = [NoLast EXCEPT !.op = "refresh", !.sent = last.sent]
    /\ UNCHANGED <<trackers, identifiers, messages, tracker_cache, tracker_buffer,
                   message_queue, sym, threads, mapper, membership, mqtt, drain, race>>

RefreshFill ==
    /\ refresh.pc = "build"
    /\ refresh.rows # {}
    /\ LET ti == CHOOSE r \in refresh.rows : TRUE
           building == (ti.identkey :> ti) @@ refresh.new_cache
       IN  /\ refresh' = [refresh EXCEPT !.rows = @ \ {ti}, !.new_cache = building]
           /\ tracker_cache' = cache_while_building(tracker_cache, building)
    /\ last' = [NoLast EXCEPT !.op = "refresh", !.sent = last.sent]
    /\ UNCHANGED <<trackers, identifiers, messages, tracker_buffer, message_queue, sym, threads, mapper, membership, mqtt, drain, race>>

RefreshSwap ==
    /\ refresh.pc = "build"
    /\ refresh.rows = {}
    /\ tracker_cache' = refresh.new_cache
    /\ refresh' = [IdleRefresh EXCEPT !.published = refresh.scanned]
    /\ last' = [NoLast EXCEPT !.op = "refresh", !.sent = last.sent]
    /\ UNCHANGED <<trackers, identifiers, messages, tracker_buffer, message_queue, sym, threads, mapper, membership, mqtt, drain, race>>

\* refresh_tracker_cache run to its end with no other thread in between
refresh_tracker_cache ==
    /\ refresh.pc = "idle"
    /\ tracker_cache' = map_of_rows(identifiers)
    /\ refresh' = [IdleRefresh EXCEPT !.published = identifiers]
    /\ last' = [NoLast EXCEPT !.op = "refresh", !.sent = last.sent]
    /\ UNCHANGED <<trackers, identifiers, messages, tracker_buffer, message_queue, sym, threads, mapper, membership, mqtt, drain, race>>

(***************************************************************************)
(* A resolve call.                                                         *)
(***************************************************************************)
Resolve(identity) ==
    LET r == get_or_create_tracker_identifier(CurrentStore, identity)
    IN  /\ Len(r.s.trackers) <= MaxTrackers
        /\ trackers' = r.s.trackers
        /\ identifiers' = r.s.identifiers
        /\ last' = ResolveRecord(CurrentStore, identity, r, last)
        /\ UNCHANGED <<messages, tracker_cache, tracker_buffer, message_queue,
                       refresh, sym, threads, mapper, membership, mqtt, drain, race>>

(***************************************************************************)
(* Ingestion of one envelope (process_mqtt_message).  The payloads carry   *)
(* no tc_group, so tc_group_management is not entered.                     *)
(***************************************************************************)
\* float(x) of a payload value: None has no float
float_raises(data, k) == data[k] = NoneOf(k)

\* the row put on the message queue
msg_entry(tracker_identifier, m, position, position_timestamp) ==
    [sha256_key |-> m.msghash, tracker_identifier |-> tracker_identifier.identkey,
     message_timestamp |-> m.received, position |-> position,
     position_timestamp |-> position_timestamp]

\* variant: no envelope is found incomplete
never_incomplete(m) == FALSE

\* not (msghash and received) or not identity
incomplete(m) == m.msghash = "" \/ m.received = 0 \/ m.identity = NoIdentity

\* a payload that json.loads rejects
NotJson == [invalid |-> "json"]

\* json.loads raises; the except clause at the end logs it
process_invalid_json ==
    /\ last' = [NoLast EXCEPT !.op = "process", !.exc = "JSONDecodeError", !.sent = last.sent]
    /\ UNCHANGED <<trackers, identifiers, messages, tracker_cache, tracker_buffer,
                   message_queue, refresh, sym, threads, mapper, membership, mqtt, drain, race>>

process_mqtt_message(m) ==
    LET formated == remap_keys(m.data, DecoderFields)
        r == get_or_create_tracker_identifier(CurrentStore, m.identity)
        tracker_identifier == r.ti
        has_position == {"longitude", "latitude"} \subseteq DOMAIN m.data
        position == IF has_position
                    THEN <<m.data["longitude"], m.data["latitude"]>>
                    ELSE NonePoint
        \* TypeError of float(None), AttributeError of None.get(...)
        raises ==
            \/ "longitude" \in DOMAIN m.data /\ float_raises(m.data, "longitude")
            \/ has_position /\ float_raises(m.data, "latitude")
            \/ has_position /\ DOMAIN formated = {}
        position_timestamp ==
            IF has_position /\ "position_timestamp" \in DOMAIN formated
               /\ formated["position_timestamp"] # 0
            THEN formated["position_timestamp"]
            ELSE NoneInt
        tracker_entry == IF has_position THEN put(formated, "position", position) ELSE formated
        tid == tracker_identifier.tracker
        dropped == [NoLast EXCEPT !.op = "process", !.msg = m, !.identity = m.identity,
                                  !.sent = last.sent]
        resolved == [ResolveRecord(CurrentStore, m.identity, r, last) EXCEPT
                        !.op = "process", !.msg = m, !.again = FALSE, !.prev_result = NoTI]
        merge_raises == /\ DOMAIN formated # {}
                        /\ accumulate_raises(tracker_buffer, tid, tracker_entry, m.received)
    IN  IF incomplete(m)
        THEN /\ last' = dropped
             /\ UNCHANGED <<trackers, identifiers, messages, tracker_cache, tracker_buffer,
                            message_queue, refresh, sym, threads, mapper, membership, mqtt, drain, race>>
        ELSE /\ Len(r.s.trackers) <= MaxTrackers
             /\ trackers' = r.s.trackers
             /\ identifiers' = r.s.identifiers
             /\ IF tracker_identifier = NoTI \/ raises
                THEN /\ last' = [resolved EXCEPT
                                    !.exc = IF r.exc # "" THEN r.exc ELSE
                                            IF tracker_identifier = NoTI THEN "" ELSE "raised"]
                     /\ UNCHANGED <<tracker_buffer, message_queue>>
                ELSE /\ Len(message_queue) < MaxQueue
                     /\ message_queue' =
                            Append(message_queue,
                                   msg_entry(tracker_identifier, m, position, position_timestamp))
                     /\ tracker_buffer' =
                            IF DOMAIN formated = {}
                            THEN tracker_buffer
                            ELSE accumulate(tracker_buffer, tid, tracker_entry, m.received)
                     /\ last' = [resolved EXCEPT !.queued = TRUE, !.tid = tid,
                                    !.exc = IF merge_raises THEN "TypeError" ELSE "",
                                    !.pending_before =
                                        IF tid \in DOMAIN tracker_buffer
                                        THEN {tracker_buffer[tid]} ELSE {},
                                    !.sent = last.sent \cup {m.msghash}]
             /\ UNCHANGED <<messages, tracker_cache, refresh, sym, threads, mapper, membership, mqtt, drain, race>>

(***************************************************************************)
(* One tick of the flush loop (save_buffer_to_db, called by the loop of    *)
(* start_save_loop every SAVE_INTERVAL seconds).                           *)
(***************************************************************************)
\* a row that a BigIntegerField of TrackerMessage rejects (ValueError in bulk_create)
rejected_row(item) ==
    item.message_timestamp = NotANumber \/ item.position_timestamp = NotANumber

\* the set `changed` of one tracker
changed_fields(row, item) == {key \in DOMAIN row : apply_item(row, item)[key] # row[key]}

\* updated_trackers, as ids
updated_trackers(table, buffer) ==
    {tid \in DOMAIN buffer \cap DOMAIN table : changed_fields(table[tid], buffer[tid]) # {}}

\* variant: one group for all updated trackers, with the union of their changed fields
grouped_together(table, buffer) ==
    LET columns == UNION {changed_fields(table[tid], buffer[tid]) :
                             tid \in updated_trackers(table, buffer)}
    IN  [fieldset \in {columns} \ {{}} |-> updated_trackers(table, buffer)]

\* grouped: field set -> trackers
grouped(table, buffer) ==
    [fieldset \in {changed_fields(table[tid], buffer[tid]) :
                      tid \in updated_trackers(table, buffer)} |->
        {tid \in updated_trackers(table, buffer) :
            changed_fields(table[tid], buffer[tid]) = fieldset}]

\* variant: the fallback loop ends at the first individual save that fails
saves_until_failure(group, failing) ==
    {tid \in group : \A other \in group \cap failing : tid <= other}

\* the trackers of a group whose bulk update failed on which save() is called
fallback_saves(group, failing) == group

\* one call of save_buffer_to_db by the loop of start_save_loop; an exception
\* that leaves save_buffer_to_db ends the loop and its thread
flush_tick(faults) ==
    LET msg_items == message_queue
        insert_raises ==
            /\ msg_items # <<>>
            /\ faults.insert \/ \E i \in DOMAIN msg_items : rejected_row(msg_items[i])
        tracker_items == tracker_buffer
        load_raises == DOMAIN tracker_items # {} /\ faults.load
        groups == grouped(trackers, tracker_items)
        bulk_updates ==
            {[fields |-> fieldset, trackers |-> groups[fieldset],
              ok |-> fieldset \notin faults.bulk] : fieldset \in DOMAIN groups}
        saves ==
            UNION {{[tracker |-> tid, fields |-> u.fields, ok |-> tid \notin faults.save] :
                       tid \in fallback_saves(u.trackers, faults.save)} :
                   u \in {b \in bulk_updates : ~b.ok}}
        written ==
            UNION {u.trackers : u \in {b \in bulk_updates : b.ok}}
            \cup {s.tracker : s \in {x \in saves : x.ok}}
    IN  /\ threads.saver = "running"
        /\ message_queue' = <<>>
        /\ IF insert_raises
           THEN /\ UNCHANGED <<messages, tracker_buffer, trackers>>
                /\ threads' = [threads EXCEPT !.saver = "dead"]
                /\ last' = [last EXCEPT !.op = "flush", !.drained = msg_items,
                                !.flushed = <<>>, !.rows_before = trackers,
                                !.bulk_updates = {}, !.saves = {},
                                !.exc = "bulk_create"]
           ELSE /\ messages' = bulk_create(messages, msg_items)
                /\ tracker_buffer' = <<>>
                /\ IF load_raises
                   THEN /\ UNCHANGED trackers
                        /\ threads' = [threads EXCEPT !.saver = "dead"]
                        /\ last' = [last EXCEPT !.op = "flush", !.drained = msg_items,
                                        !.flushed = tracker_items, !.rows_before = trackers,
                                        !.bulk_updates = {}, !.saves = {},
                                        !.exc = "filter"]
                   ELSE /\ trackers' =
                               [tid \in DOMAIN trackers |->
                                   IF tid \in written
                                   THEN apply_buffer(trackers, tracker_items)[tid]
                                   ELSE trackers[tid]]
                        /\ UNCHANGED threads
                        /\ last' = [last EXCEPT !.op = "flush", !.drained = msg_items,
                                        !.flushed = tracker_items, !.rows_before = trackers,
                                        !.bulk_updates = bulk_updates,
                                        !.saves = saves, !.exc = ""]
        /\ UNCHANGED <<identifiers, tracker_cache, refresh, sym, mapper, membership, mqtt, drain, race>>

\* a tick in which no storage operation fails
save_buffer_to_db == flush_tick(NoFaults)

(***************************************************************************)
(* An operator clears a fill-only field of a Tracker in the admin site     *)
(* (TrackerAdmin): the empty form value of a nullable CharField is saved   *)
(* as None.                                                                *)
(***************************************************************************)
admin_clear(tid, field) ==
    /\ tid \in DOMAIN trackers
    /\ trackers[tid][field] # NoneStr
    /\ trackers' = [trackers EXCEPT ![tid][field] = NoneStr]
    /\ last' = [NoLast EXCEPT !.op = "admin", !.tid = tid, !.sent = last.sent]
    /\ UNCHANGED <<identifiers, messages, tracker_cache, tracker_buffer, message_queue,
                   refresh, sym, threads, mapper, membership, mqtt, drain, race>>

(***************************************************************************)
(* The threads and the locks: the steps of each thread that take or release *)
(* a lock or touch a shared structure.  buffer is buffer_lock_tracker, queue *)
(* is the mutex inside message_queue (queue.Queue), taken and released by   *)
(* each put, empty and get_nowait; the identity cache has no lock.          *)
(***************************************************************************)
Locks == {"buffer", "queue"}

\* the callers of process_mqtt_message (the MQTT client thread, the Traccar
\* poller), the flush loop and the cache-refresh loop
Ingesters == {"mqtt", "traccar"}

ThreadIds == Ingesters \cup {"flush", "refresh"}

\* variant: the queue put inside the with block of the buffer lock
put_under_lock ==
    <<<<"read", "cache">>, <<"acquire", "buffer">>, <<"acquire", "queue">>,
      <<"release", "queue">>, <<"write", "buffer">>, <<"release", "buffer">>>>

\* process_mqtt_message: the cache lookups of the resolver, message_queue.put,
\* then the merge inside `with buffer_lock_tracker`
IngestProgram ==
    <<<<"read", "cache">>, <<"acquire", "queue">>, <<"release", "queue">>,
      <<"acquire", "buffer">>, <<"write", "buffer">>, <<"release", "buffer">>>>

\* save_buffer_to_db: the queue is drained, the rows are inserted, the buffer is
\* copied and cleared inside `with buffer_lock_tracker`, the trackers are updated
FlushProgram ==
    <<<<"acquire", "queue">>, <<"release", "queue">>, <<"storage", "insert">>,
      <<"acquire", "buffer">>, <<"write", "buffer">>, <<"release", "buffer">>,
      <<"storage", "update">>>>

\* refresh_tracker_cache: the rows are read, then the cache reference is replaced
RefreshProgram == <<<<"storage", "scan">>, <<"write", "cache">>>>

Program(t) ==
    CASE t \in Ingesters -> IngestProgram
      [] t = "flush" -> FlushProgram
      [] t = "refresh" -> RefreshProgram

\* the step thread t is about to take
NextOp(t) == Program(t)[threads.pos[t]]

\* the position after position i of the program of t; the loops start over
Following(t, i) == IF i = Len(Program(t)) THEN 1 ELSE i + 1

\* thread t takes its next step: an acquire waits until the lock is free
thread_step(t) ==
    LET op == NextOp(t)
    IN  /\ t = "flush" => threads.saver = "running"
        /\ op[1] = "acquire" => \A u \in ThreadIds : op[2] \notin threads.held[u]
        /\ threads' =
              [threads EXCEPT
                  !.pos[t] = Following(t, @),
                  !.held[t] = CASE op[1] = "acquire" -> @ \cup {op[2]}
                                [] op[1] = "release" -> @ \ {op[2]}
                                [] OTHER -> @]
        /\ UNCHANGED <<trackers, identifiers, messages, tracker_cache, tracker_buffer,
                       message_queue, refresh, last, sym, mapper, membership, mqtt, drain, race>>

\* process_mqtt_message returns early, holding no lock: the message is dropped
\* before the queue put, or it maps no field and nothing is merged
ingest_returns(t) ==
    /\ t \in Ingesters
    /\ NextOp(t) \in {<<"acquire", "queue">>, <<"acquire", "buffer">>}
    /\ threads.held[t] = {}
    /\ threads' = [threads EXCEPT !.pos[t] = 1]
    /\ UNCHANGED <<trackers, identifiers, messages, tracker_cache, tracker_buffer,
                   message_queue, refresh, last, sym, mapper, membership, mqtt, drain, race>>

\* a storage operation of the flush thread raises: the exception leaves the loop
\* and the thread ends, where it is
flush_raises ==
    /\ threads.saver = "running"
    /\ NextOp("flush")[1] = "storage"
    /\ threads' = [threads EXCEPT !.saver = "dead"]
    /\ UNCHANGED <<trackers, identifiers, messages, tracker_cache, tracker_buffer,
                   message_queue, refresh, last, sym, mapper, membership, mqtt, drain, race>>

\* the threads right after start_save_loop
Started ==
    [saver |-> "running",
     pos |-> [t \in ThreadIds |-> 1],
     held |-> [t \in ThreadIds |-> {}]]

(***************************************************************************)
(* Two stores side by side: the same two sightings of one asset resolved   *)
(* in the two possible orders, each store starting empty.                  *)
(***************************************************************************)
NoSym == [phase |-> 0, identtype |-> "", identid |-> <<>>, tc |-> <<>>, shape |-> "",
          a |-> EmptyStore, b |-> EmptyStore]

SymInputs ==
    {[NoSym EXCEPT !.identtype = d[1], !.identid = d[2], !.tc = tc, !.shape = sh] :
        d \in {<<"MMSI", <<"A1">>>>, <<"mmsi", <<"a1">>>>, <<"ICAO", <<"A1">>>>,
               <<"GMS", <<"A1">>>>},
        tc \in {<<"X7">>, <<"x7">>, <<"ADSB", "-", "A1">>, <<"MMSI", "-", "A1">>},
        sh \in {"alias", "alias+type"}}

\* the sighting that carries the vendor alias only (with or without identtype/identid)
SymAliasOnly ==
    IF sym.shape = "alias"
    THEN Identity(<<>>, "", <<>>, sym.tc)
    ELSE Identity(<<>>, sym.identtype, sym.identid, sym.tc)

\* the sighting that carries the declared key only
SymDeclaredOnly ==
    Identity(DeclaredKey(sym.identtype, sym.identid), sym.identtype, sym.identid, <<>>)

\* the sighting that carries the declared key together with the vendor alias
SymBoth ==
    Identity(DeclaredKey(sym.identtype, sym.identid), sym.identtype, sym.identid, sym.tc)

\* order a: vendor alias first; order b: declared key first
SymFirst ==
    /\ sym.phase = 0
    /\ sym' = [sym EXCEPT
                  !.phase = 1,
                  !.a = get_or_create_tracker_identifier(sym.a, SymAliasOnly).s,
                  !.b = get_or_create_tracker_identifier(sym.b, SymDeclaredOnly).s]
    /\ UNCHANGED <<trackers, identifiers, messages, tracker_cache, tracker_buffer,
                   message_queue, refresh, last, threads, mapper, membership, mqtt, drain, race>>

\* a cache refresh between the two sightings
SymRefresh ==
    /\ sym.phase = 1
    /\ sym' = [sym EXCEPT
                  !.phase = 2,
                  !.a.tracker_cache = map_of_rows(sym.a.identifiers),
                  !.b.tracker_cache = map_of_rows(sym.b.identifiers)]
    /\ UNCHANGED <<trackers, identifiers, messages, tracker_cache, tracker_buffer,
                   message_queue, refresh, last, threads, mapper, membership, mqtt, drain, race>>

SymSecond ==
    /\ sym.phase \in {1, 2}
    /\ sym' = [sym EXCEPT
                  !.phase = 3,
                  !.a = get_or_create_tracker_identifier(sym.a, SymBoth).s,
                  !.b = get_or_create_tracker_identifier(sym.b, SymBoth).s]
    /\ UNCHANGED <<trackers, identifiers, messages, tracker_cache, tracker_buffer,
                   message_queue, refresh, last, threads, mapper, membership, mqtt, drain, race>>

Init ==
    /\ trackers = <<>>
    /\ identifiers = {}
    /\ messages = {}
    /\ tracker_cache = <<>>
    /\ tracker_buffer = <<>>
    /\ message_queue = <<>>
    /\ refresh = IdleRefresh
    /\ last = NoLast
    /\ sym = NoSym
    /\ threads = Started
    /\ mapper = NoCall
    /\ membership = NoGroups
    /\ mqtt = NoMqtt
    /\ drain = NoDrain
    /\ race = NoRace

NextResolve ==
    \/ \E identity \in Identities : Resolve(identity)
    \/ refresh_tracker_cache

\* Resolve calls with a cache refresh between any two of them.
SpecResolve == Init /\ [][NextResolve]_vars

CacheIdentities ==
    {Identity(DeclaredKey("MMSI", <<"A1">>), "MMSI", <<"A1">>, tc) : tc \in {<<>>, <<"X7">>}}
    \cup {Identity(DeclaredKey("ICAO", <<"A1">>), "ICAO", <<"A1">>, <<"ADSB", "-", "A1">>)}
    \cup {Identity(<<>>, "MMSI", <<"A1">>, <<"X7">>)}

NextCache ==
    \/ \E identity \in CacheIdentities : Resolve(identity)
    \/ RefreshScan
    \/ RefreshFill
    \/ RefreshSwap

\* The refresh thread interleaved, step by step, with the resolve calls of an
\* ingestion thread.
SpecCache == Init /\ [][NextCache]_vars

InitSym ==
    /\ trackers = <<>>
    /\ identifiers = {}
    /\ messages = {}
    /\ tracker_cache = <<>>
    /\ tracker_buffer = <<>>
    /\ message_queue = <<>>
    /\ refresh = IdleRefresh
    /\ last = NoLast
    /\ sym \in SymInputs
    /\ threads = Started
    /\ mapper = NoCall
    /\ membership = NoGroups
    /\ mqtt = NoMqtt
    /\ drain = NoDrain
    /\ race = NoRace

NextSym == SymFirst \/ SymRefresh \/ SymSecond

\* The two orders of arrival, on two stores that both start empty.
SpecSym == InitSym /\ [][NextSym]_vars

(***************************************************************************)
(* Envelopes.                                                              *)
(***************************************************************************)
KnownShip == Identity(DeclaredKey("MMSI", <<"A1">>), "MMSI", <<"A1">>, <<>>)

\* the identity of the end-to-end example: type and external id, no identkey
TypeAndIdOnly == Identity(<<>>, "MMSI", <<"A1">>, <<>>)

Payloads(sets) ==
    {a @@ b @@ c @@ d : a \in sets[1], b \in sets[2], c \in sets[3], d \in sets[4]}

MergeMsgs ==
    {Envelope("h1", 100, KnownShip, data) :
        data \in Payloads(<<Opt("speed", {3, 5}), Opt("fixtime", {50, 100}),
                            Opt("metatime", {50, 100}), {NoData}>>)
             \cup Payloads(<<Opt("shipname", {"A", "B"}) \ {NoData}, Opt("metatime", {50, 100}),
                             {NoData}, {NoData}>>)}

NextMerge == \E m \in MergeMsgs : process_mqtt_message(m)

\* Envelopes of one tracker accumulated in the State Merge Buffer between two
\* flush ticks.
SpecMerge == Init /\ [][NextMerge]_vars

FlushMsgs ==
    {Envelope("h1", 100, KnownShip, data) :
        data \in {[name |-> "Foo"], [name |-> "Bar"], [name |-> " "], [name |-> ""],
                  [category |-> "ship"], [speed |-> 3], [shipname |-> " ", rssi |-> 7],
                  [name |-> "Foo", category |-> "ship", speed |-> 5]}}

NextFlush ==
    \/ \E m \in FlushMsgs : process_mqtt_message(m)
    \/ save_buffer_to_db
    \/ \E tid \in 1..MaxTrackers, field \in FillOnlyFields : admin_clear(tid, field)

\* Ingestion, flush ticks and an operator editing the curated fields.
SpecFlush == Init /\ [][NextFlush]_vars

Fix == [latitude |-> 52, longitude |-> 4, speed |-> 5, fixtime |-> 100]

PipelineMsgs ==
    {Envelope("h1", 100, KnownShip, data) :
        data \in {Fix, [speed |-> 3], [latitude |-> 52, longitude |-> 4]}}
    \cup {Envelope("h1", 50, KnownShip, [speed |-> 3]),
          Envelope("h2", 100, KnownShip, Fix),
          Envelope("h1", 100, TypeAndIdOnly, Fix)}

Next ==
    \/ \E m \in PipelineMsgs : process_mqtt_message(m)
    \/ save_buffer_to_db
    \/ refresh_tracker_cache

\* The pipeline: ingestion, the flush loop and the cache-refresh loop.
Spec == Init /\ [][Next]_vars

\* identities whose type, or the type embedded in the vendor id, is not in the
\* vocabulary
UnknownDeclared == Identity(DeclaredKey("GMS", <<"A1">>), "GMS", <<"A1">>, <<>>)

UnknownSecondary ==
    Identity(DeclaredKey("MMSI", <<"A1">>), "MMSI", <<"A1">>, <<"GMS", "-", "A1">>)

ErrMsgs ==
    {Envelope("h2", 100, KnownShip, [shipname |-> "A", metatime |-> 100]),
     Envelope("h1", 100, UnknownDeclared, [speed |-> 5]),
     Envelope("h1", 100, UnknownSecondary, [speed |-> 5]),
     Envelope("", 100, KnownShip, [speed |-> 5]),
     Envelope("h1", 0, KnownShip, [speed |-> 5]),
     Envelope("h1", 100, NoIdentity, [speed |-> 5]),
     Envelope("h2", NotANumber, KnownShip, [speed |-> 3, shipname |-> "B"])}

NextErr ==
    \/ \E m \in ErrMsgs : process_mqtt_message(m)
    \/ process_invalid_json
    \/ save_buffer_to_db

\* Ingestion of good and bad envelopes, and the flush loop.
SpecErr == Init /\ [][NextErr]_vars

OtherShip == Identity(DeclaredKey("MMSI", <<"B2">>), "MMSI", <<"B2">>, <<>>)

Plane == Identity(DeclaredKey("ICAO", <<"A1">>), "ICAO", <<"A1">>, <<>>)

FaultMsgs ==
    {Envelope("h1", 100, KnownShip, [speed |-> 5]),
     Envelope("h1", 100, OtherShip, [speed |-> 5]),
     Envelope("h1", 100, Plane, [name |-> "A"])}

\* a tick of the flush loop in which any of its storage operations may raise:
\* the bulk insert, the load of the Tracker rows, the bulk update of any group,
\* the individual save of any tracker
insert_fails == flush_tick(Faults(TRUE, FALSE, {}, {}))

load_fails == flush_tick(Faults(FALSE, TRUE, {}, {}))

updates_fail ==
    LET groups == grouped(trackers, tracker_buffer)
    IN  \E bulk \in SUBSET DOMAIN groups :
            \E save \in SUBSET UNION {groups[fieldset] : fieldset \in bulk} :
                flush_tick(Faults(FALSE, FALSE, bulk, save))

NextFaults ==
    \/ \E m \in FaultMsgs : process_mqtt_message(m)
    \/ insert_fails
    \/ load_fails
    \/ updates_fail

\* Ingestion for several trackers and a flush loop whose storage may fail.
SpecFaults == Init /\ [][NextFaults]_vars

\* The same with the scheduling of the flush loop: while its thread runs, the loop
\* of start_save_loop calls save_buffer_to_db every SAVE_INTERVAL seconds, and the
\* storage is not failing forever.
SpecFaultsFair == SpecFaults /\ WF_vars(save_buffer_to_db)

NextLocks ==
    \/ \E t \in ThreadIds : thread_step(t)
    \/ \E t \in Ingesters : ingest_returns(t)
    \/ flush_raises

\* The interleavings of the ingestion threads, the flush thread and the
\* cache-refresh thread over the locks.
SpecLocks == Init /\ [][NextLocks]_vars

\* an identity whose identkey names another ship than its identtype and identid
Mislabelled(tc) == Identity(DeclaredKey("MMSI", <<"X7">>), "MMSI", <<"A1">>, tc)

UniqueIdentities ==
    {Identity(DeclaredKey("MMSI", <<"A1">>), "MMSI", <<"A1">>, tc) : tc \in VendorIds}
    \cup {Identity(DeclaredKey("mmsi", <<"a1">>), "mmsi", <<"a1">>, <<>>)}
    \cup {Identity(DeclaredKey("ICAO", <<"A1">>), "ICAO", <<"A1">>, <<"ADSB", "-", "A1">>)}
    \cup {Mislabelled(tc) : tc \in {<<>>, <<"X7">>}}

NextUnique ==
    \/ \E identity \in UniqueIdentities : Resolve(identity)
    \/ refresh_tracker_cache

\* Resolve calls, some of them with an identity that runs into the unique
\* constraints of TrackerIdentifier.
SpecUnique == Init /\ [][NextUnique]_vars

(***************************************************************************)
(* One call of the field mapper on a payload and a translation table.      *)
(***************************************************************************)
\* a decoder table in which two names have the same dbfield
CollidingTable == [DecoderFields EXCEPT !["shipname"] = "custom_name"]

MapperTables == {DecoderFields, CollidingTable}

\* payloads: values present, None or the empty string, keys with a target, with a
\* blank dbfield and unknown to the table, a nested dict
MapperPayloads ==
    {a @@ b @@ c @@ d @@ e @@ f :
        a \in Opt("speed", {5, NoneInt}),
        b \in Opt("name", {"A", "", NoneStr}),
        c \in Opt("shipname", {"B"}),
        d \in Opt("battery", {80}),
        e \in Opt("foo", {1}),
        f \in Opt("attributes", {NoData, [battery |-> 80], [battery |-> NoneInt, rssi |-> 7]})}

remap_call ==
    /\ mapper.pc = "input"
    /\ mapper' = [mapper EXCEPT !.pc = "done",
                                 !.result = remap_keys(mapper.data, mapper.mapping),
                                 !.unmapped = unmapped_keys(mapper.data, mapper.mapping)]
    /\ UNCHANGED <<trackers, identifiers, messages, tracker_cache, tracker_buffer,
                   message_queue, refresh, last, sym, threads, membership, mqtt, drain, race>>

InitMap ==
    /\ trackers = <<>>
    /\ identifiers = {}
    /\ messages = {}
    /\ tracker_cache = <<>>
    /\ tracker_buffer = <<>>
    /\ message_queue = <<>>
    /\ refresh = IdleRefresh
    /\ last = NoLast
    /\ sym = NoSym
    /\ threads = Started
    /\ membership = NoGroups
    /\ mqtt = NoMqtt
    /\ drain = NoDrain
    /\ race = NoRace
    /\ mapper \in {[NoCall EXCEPT !.pc = "input", !.data = data, !.mapping = mapping] :
                        data \in MapperPayloads, mapping \in MapperTables}

\* remap_keys applied to each payload and table.
SpecMap == InitMap /\ [][remap_call]_vars

(***************************************************************************)
(* Vocabulary of the properties.                                           *)
(***************************************************************************)
KeysOf(rows) == {ti.identkey : ti \in rows}

\* the two candidate lookup keys a call supplies
SuppliedDeclaredKey(identity) == upper(identity.identkey)

SuppliedAliasKey(identity) ==
    IF identity.tcUniqueId = <<>> THEN <<>> ELSE <<"TCUID", "_">> \o upper(identity.tcUniqueId)

CandidateKeys(identity) == {SuppliedDeclaredKey(identity), SuppliedAliasKey(identity)} \ {<<>>}

\* identtype and identid are given; the type is in the vocabulary
WellFormed(identity) == identity.identtype # "" /\ identity.identid # <<>>

OfKnownType(identity) == Up(identity.identtype) \in TypeCodes

\* the identkey embedded in a vendor id of the form PREFIX-ID, as a set of 0 or 1 keys
DecomposedKey(tc) ==
    LET u == upper(tc)
    IN  IF Len(u) >= 3 /\ u[2] = "-" /\ u[1] \in {"ICAO", "ADSB", "MMSI", "DMR", "GMS"}
        THEN {<<(CASE u[1] = "ADSB" -> "ICAO" [] u[1] = "DMR" -> "DMR_RN" [] OTHER -> u[1]),
                "_">> \o SubSeq(u, 3, Len(u))}
        ELSE {}

\* the identifiers that existed before the most recent call
PriorIdentifiers == identifiers \ last.new_identifiers

\* the secondary identifier the most recent call had to create
NewSecondaryKeys ==
    {k \in DecomposedKey(last.identity.tcUniqueId) :
        k[1] \in TypeCodes /\ k \notin KeysOf(PriorIdentifiers)}

ResolveCalled == last.op = "resolve" /\ WellFormed(last.identity)

(***************************************************************************)
(* C2  New-identity creation.                                              *)
(***************************************************************************)
BothUnknown ==
    /\ ResolveCalled
    /\ OfKnownType(last.identity)
    /\ ~last.hit_declared
    /\ ~last.hit_alias
    /\ CandidateKeys(last.identity) # {}

DeclaredKnownAliasNew ==
    /\ ResolveCalled
    /\ last.hit_declared
    /\ ~last.hit_alias
    /\ last.identity.tcUniqueId # <<>>

\* the tracker that owned the declared key before the call
DeclaredTracker ==
    (CHOOSE ti \in PriorIdentifiers :
        ti.identkey = SuppliedDeclaredKey(last.identity)).tracker

SymDone == sym.phase = 3 /\ Up(sym.identtype) \in TypeCodes

SymSameEndState ==
    /\ sym.a.trackers = sym.b.trackers
    /\ sym.a.identifiers = sym.b.identifiers

LookupKeys == KeysOf(identifiers) \cup UNION {CandidateKeys(i) : i \in Identities}

\* C8: at every moment, also in the middle of a refresh, the map a lookup reads
\* is a complete snapshot (the one published last: the old one until the swap,
\* the new one after it), and a lookup returns only records of the old snapshot,
\* of the snapshot being built or of storage.
C8_CopyAndSwap ==
    /\ DOMAIN tracker_cache = KeysOf(refresh.published)
    /\ \A k \in DOMAIN tracker_cache : tracker_cache[k] \in refresh.published
    /\ \A k \in LookupKeys :
          LET ti == find_tracker_identifier_by_identkey(CurrentStore, k)
          IN  ti # NoTI => ti \in refresh.published \cup refresh.scanned \cup identifiers

\* a resolve call ran, and hit the cache, while a refresh had filled part of its map
C8_Witness ==
    /\ refresh.pc = "build"
    /\ refresh.rows # {}
    /\ refresh.new_cache # <<>>
    /\ DOMAIN tracker_cache # {}
    /\ DOMAIN tracker_cache # DOMAIN refresh.new_cache
    /\ last.op = "resolve"
    /\ last.hit_declared

(***************************************************************************)
(* C9  Synchronous cache insert.                                           *)
(***************************************************************************)
\* C9: right after a resolve call created TrackerIdentifiers, the cache map has
\* an entry for the identkey of each of them.
C9_SynchronousCacheInsert ==
    last.op = "resolve" => KeysOf(last.new_identifiers) \subseteq DOMAIN tracker_cache

(***************************************************************************)
(* C10  Resolution is idempotent.                                          *)
(***************************************************************************)
\* C10: a resolve call that repeats the identity of the call right before it (no
\* refresh in between) creates no Tracker and no TrackerIdentifier and returns
\* an identifier of the same Tracker.
C10_ResolutionIdempotent ==
    last.again =>
        /\ last.new_trackers = 0
        /\ last.new_identifiers = {}
        /\ last.result.tracker = last.prev_result.tracker

(***************************************************************************)
(* C1.  Merge into a pending entry.                                        *)
(***************************************************************************)
\* the last envelope was merged into an entry that was pending already
MergedIntoPending == last.op = "process" /\ last.queued /\ last.pending_before # {}

PendingBefore == CHOOSE entry \in last.pending_before : TRUE

PendingAfter == tracker_buffer[last.tid]

\* the envelope carries a position timestamp strictly older than the pending one
StrictlyOlderPosition ==
    /\ "fixtime" \in DOMAIN last.msg.data
    /\ "position_timestamp" \in DOMAIN PendingBefore
    /\ last.msg.data["fixtime"] < PendingBefore["position_timestamp"]

\* C1: a positional field of a pending entry is never replaced by an envelope
\* whose position_timestamp is strictly older than the pending entry's,
\* whatever the meta timestamps are.
C1_RecencyRespectingMerge ==
    (MergedIntoPending /\ StrictlyOlderPosition) =>
        \A k \in {"altitude", "speed", "course", "position", "position_timestamp"} :
            k \in DOMAIN PendingBefore => PendingAfter[k] = PendingBefore[k]

(***************************************************************************)
(* C5.  End to end.                                                        *)
(***************************************************************************)
\* a well-formed envelope that names its asset by type and external id only
EndToEndCase(m) ==
    /\ m.msghash # "" /\ m.received # 0
    /\ m.identity.identkey = <<>>
    /\ WellFormed(m.identity) /\ OfKnownType(m.identity)
    /\ {"latitude", "longitude", "speed"} \subseteq DOMAIN m.data

\* C5: one flush tick after a well-formed envelope with identtype and identid
\* only, a Tracker carries the envelope's position, a TrackerMessage is
\* stored under its msghash, and the tracker is known under TYPE_EXTERNALID.
C5_EndToEnd ==
    (last.op = "flush" /\ EndToEndCase(last.msg)) =>
        /\ \E tid \in DOMAIN trackers :
               trackers[tid].position = <<last.msg.data["longitude"], last.msg.data["latitude"]>>
        /\ \E row \in messages : row.sha256_key = last.msg.msghash
        /\ \E ti \in identifiers :
               ti.identkey = <<Up(last.msg.identity.identtype), "_">> \o last.msg.identity.identid

(***************************************************************************)
(* C6.  Message storage.                                                   *)
(***************************************************************************)
StoredUnder(h) == {row \in messages : row.sha256_key = h}

Queued(h) == \E i \in DOMAIN message_queue : message_queue[i].sha256_key = h

\* C6: whatever was enqueued and however the flush ticks fell, storage holds
\* one TrackerMessage row per msghash enqueued and flushed, never two and never
\* a row that was not enqueued; a hash without a row is still in the queue.
C6_OneRowPerHash ==
    /\ \A row \in messages : row.sha256_key \in last.sent
    /\ \A h \in last.sent :
           \/ Cardinality(StoredUnder(h)) = 1
           \/ StoredUnder(h) = {} /\ Queued(h)

\* a tick that drained two different rows of one hash, a third row of that
\* hash being stored by an earlier tick
C6_Witness ==
    /\ last.op = "flush"
    /\ Len(last.drained) = 2
    /\ last.drained[1].sha256_key = last.drained[2].sha256_key
    /\ last.drained[1] # last.drained[2]
    /\ last.drained[1] \notin messages
    /\ last.drained[2] \notin messages
    /\ StoredUnder(last.drained[1].sha256_key) # {}

(***************************************************************************)
(* C7.  Fill-only fields.                                                  *)
(***************************************************************************)
Columns ==
    {"custom_name", "icon", "ais_name", "speed", "position", "position_timestamp",
     "meta_timestamp"}

TextColumns == {"custom_name", "icon", "ais_name"}

Curated == {"custom_name", "icon"}

\* a stored or pending value that is null or blank
Empty(key, value) == key \in TextColumns /\ value \in {"None", "", " "}

\* what a flush has to leave in column key of a row, given the pending item
Expected(key, before, item) ==
    IF key \in Curated /\ ~Empty(key, before[key]) THEN before[key] ELSE item[key]

\* C7 as stated: a flush leaves a non-empty custom_name or icon alone, sets an
\* empty one to the pending value and overwrites every other column with the
\* pending value.
C7_FillOnlyOverwrite ==
    last.op = "flush" =>
        \A tid \in DOMAIN last.flushed \cap DOMAIN last.rows_before :
            \A key \in Columns \cap DOMAIN last.flushed[tid] :
                trackers[tid][key] = Expected(key, last.rows_before[tid], last.flushed[tid])

\* C7, amended: the same for every pending value that is neither null nor a
\* blank string; a column whose pending value is null or blank, or that the
\* pending item does not carry, keeps its stored value.
C7_FillOnlyProtection ==
    last.op = "flush" =>
        \A tid \in DOMAIN last.rows_before :
            \A key \in Columns :
                IF /\ tid \in DOMAIN last.flushed
                   /\ key \in DOMAIN last.flushed[tid]
                   /\ ~Empty(key, last.flushed[tid][key])
                THEN trackers[tid][key] =
                        Expected(key, last.rows_before[tid], last.flushed[tid])
                ELSE trackers[tid][key] = last.rows_before[tid][key]

\* one tick that protects a name, fills a cleared icon and overwrites a speed
C7_Witness ==
    /\ last.op = "flush"
    /\ \E tid \in DOMAIN last.flushed \cap DOMAIN last.rows_before :
        LET before == last.rows_before[tid]
            item == last.flushed[tid]
        IN  /\ {"custom_name", "icon", "speed"} \subseteq DOMAIN item
            /\ before.custom_name = "Bar" /\ item["custom_name"] = "Foo"
            /\ trackers[tid].custom_name = "Bar"
            /\ before.icon = "None" /\ item["icon"] = "ship" /\ trackers[tid].icon = "ship"
            /\ before.speed = 3 /\ item["speed"] = 5 /\ trackers[tid].speed = 5

(***************************************************************************)
(* C11  Resolver result.                                                   *)
(***************************************************************************)
\* the declared type and external id are supplied and the type is in the vocabulary
DeclaredResolvable(identity) == WellFormed(identity) /\ OfKnownType(identity)

\* C11: a resolve call returns the identifier TYPE_EXTERNALID of the declared
\* identity when a declared type and external id are supplied and resolvable;
\* otherwise, when a vendor unique id is supplied, it returns the TCUID
\* identifier of that vendor id; it returns not-found only when no candidate
\* key is present or an error occurred.
C11_ResolverResult ==
    last.op = "resolve" =>
        /\ DeclaredResolvable(last.identity) =>
               last.result.identkey =
                   <<Up(last.identity.identtype), "_">> \o upper(last.identity.identid)
        /\ (~WellFormed(last.identity) /\ last.identity.tcUniqueId # <<>>) =>
               last.result.identkey = SuppliedAliasKey(last.identity)
        /\ last.result = NoTI =>
               \/ last.exc # ""
               \/ /\ ~WellFormed(last.identity)
                  /\ last.identity.tcUniqueId = <<>>

(***************************************************************************)
(* C12  Resolver frame.                                                    *)
(***************************************************************************)
\* every row of the two tables is still there, unchanged, after the step
RowsKept ==
    /\ identifiers \subseteq identifiers'
    /\ Len(trackers') >= Len(trackers)
    /\ \A tid \in DOMAIN trackers : trackers'[tid] = trackers[tid]

\* the step was a call in which both lookups hit
BothHit == last'.hit_declared /\ last'.hit_alias

Malformed(m) == m.msghash = "" \/ m.received = 0 \/ m.identity = NoIdentity

\* the call recorded in l has to create an identifier whose type code is not in
\* the vocabulary: the declared one, or the one decomposed from a vendor id that
\* was not linked yet
UnknownTypeNeeded(l) ==
    /\ l.op = "process"
    /\ ~Malformed(l.msg)
    /\ WellFormed(l.identity)
    /\ \/ l.identity.identkey # <<>> /\ ~OfKnownType(l.identity)
       \/ /\ l.identity.tcUniqueId # <<>>
          /\ ~l.hit_alias
          /\ \E k \in DecomposedKey(l.identity.tcUniqueId) : k[1] \notin TypeCodes

\* C13: when a resolve call needs an identifier-type code that is not in the
\* vocabulary, resolve returns not-found and the message is dropped: nothing is
\* appended to the message queue, the State Merge Buffer and the stored messages
\* are unchanged, and nothing keeps the message for a retry.
C13_UnknownTypeDropped ==
    [][UnknownTypeNeeded(last') =>
          /\ last'.result = NoTI
          /\ ~last'.queued
          /\ message_queue' = message_queue
          /\ tracker_buffer' = tracker_buffer
          /\ messages' = messages]_vars

\* an envelope dropped for the type embedded in its vendor id, after the call
\* had created identifiers, while another message was waiting in the queue
C13_Witness ==
    /\ UnknownTypeNeeded(last)
    /\ last.exc = "DoesNotExist"
    /\ last.new_identifiers # {}
    /\ message_queue # <<>>
    /\ DOMAIN tracker_buffer # {}

(***************************************************************************)
(* C14  Malformed envelope.                                                *)
(***************************************************************************)
\* C14: an envelope lacking msghash, received or identity is dropped before
\* identity resolution: no Tracker, no TrackerIdentifier, and the message queue,
\* the State Merge Buffer, the cache and the stored messages are unchanged.
C14_MalformedDropped ==
    [][(last'.op = "process" /\ Malformed(last'.msg)) =>
          /\ trackers' = trackers
          /\ identifiers' = identifiers
          /\ message_queue' = message_queue
          /\ tracker_buffer' = tracker_buffer
          /\ tracker_cache' = tracker_cache
          /\ messages' = messages]_vars

\* an envelope without msghash whose identity was unknown: resolving it would
\* have created a Tracker
C14_Witness ==
    /\ last.op = "process"
    /\ last.msg.msghash = ""
    /\ last.msg.identity = KnownShip
    /\ identifiers = {}
    /\ trackers = <<>>

(***************************************************************************)
(* C15  Flush failure semantics.                                           *)
(***************************************************************************)
\* the message is stored
Persisted(item) == \E row \in messages : row.sha256_key = item.sha256_key

\* the pending entry of tracker tid drained by the last tick had something to write
HadChanges(tid) ==
    /\ tid \in DOMAIN last.rows_before
    /\ changed_fields(last.rows_before[tid], last.flushed[tid]) # {}

\* the pending entry of tracker tid drained by the last tick is in the Tracker row
Written(tid) == trackers[tid] = apply_item(last.rows_before[tid], last.flushed[tid])

\* C15: after every flush tick, whatever storage operation failed in it, each
\* message drained from the queue in the tick is stored, and each pending tracker
\* entry drained in the tick is either written to its Tracker row or had an
\* individual save attempted.
C15_FlushFailure ==
    last.op = "flush" =>
        /\ \A i \in DOMAIN last.drained : Persisted(last.drained[i])
        /\ \A tid \in DOMAIN last.flushed :
              HadChanges(tid) => Written(tid) \/ \E s \in last.saves : s.tracker = tid

(***************************************************************************)
(* C16  Per-record fallback.                                               *)
(***************************************************************************)
\* an individual save of tracker tid with the field list of the bulk update u
SavedAlone(u, tid) ==
    \E s \in last.saves :
        /\ s.tracker = tid
        /\ s.fields = u.fields
        /\ IF s.ok THEN Written(tid) ELSE trackers[tid] = last.rows_before[tid]

\* C16: in a flush tick every field-set group gets its bulk update; when the bulk
\* update of a group fails, every tracker of the group is saved individually
\* with the same field list, whether or not the individual save of another
\* tracker of the group failed; a group whose bulk update succeeds is written.
C16_PerRecordFallback ==
    (last.op = "flush" /\ last.exc = "") =>
        LET groups == grouped(last.rows_before, last.flushed)
        IN  /\ {u.fields : u \in last.bulk_updates} = DOMAIN groups
            /\ \A u \in last.bulk_updates :
                  /\ u.trackers = groups[u.fields]
                  /\ IF u.ok
                     THEN \A tid \in u.trackers : Written(tid)
                     ELSE \A tid \in u.trackers : SavedAlone(u, tid)

\* a tick with two groups: the bulk update of one failed, the individual save of
\* its first tracker failed and the save of a later tracker of the group
\* succeeded, and the bulk update of the other group succeeded
C16_Witness ==
    /\ last.op = "flush"
    /\ last.exc = ""
    /\ \E u, v \in last.bulk_updates :
          /\ ~u.ok
          /\ v.ok
          /\ \E a, b \in u.trackers :
                /\ a < b
                /\ \E s \in last.saves : s.tracker = a /\ ~s.ok
                /\ \E s \in last.saves : s.tracker = b /\ s.ok
                /\ trackers[b] # last.rows_before[b]
          /\ \E c \in v.trackers : trackers[c] # last.rows_before[c]

(***************************************************************************)
(* C17  A bad message does not disturb the pipeline.                       *)
(***************************************************************************)
\* C17: a message whose processing ends in an exception, caught inside
\* process_mqtt_message, or in a drop leaves the message queue and the State
\* Merge Buffer as they were, so that a valid message processed afterwards is
\* enqueued and merged as if the bad message had not occurred.
C17_BadMessageIsolated ==
    [][(last'.op = "process" /\ (last'.exc # "" \/ ~last'.queued)) =>
          /\ message_queue' = message_queue
          /\ tracker_buffer' = tracker_buffer]_vars

(***************************************************************************)
(* C18  Flush scheduler liveness.                                          *)
(***************************************************************************)
\* the last operation was a flush tick in which a storage operation raised
FailedTick == last.op = "flush" /\ last.exc # ""

\* the last operation was a flush tick that raised nothing and left the queue empty
GoodTick == last.op = "flush" /\ last.exc = "" /\ message_queue = <<>>

\* C18: after a flush tick in which a storage operation failed, whenever messages
\* are waiting in the queue a later flush tick occurs that drains and stores them.
C18_FlushLiveness == [](FailedTick => [](message_queue # <<>> => <>GoodTick))

(***************************************************************************)
(* C19  Lock discipline.                                                   *)
(***************************************************************************)
\* the shared structure thread t is operating on or waiting for: its next step
\* reads, writes or locks it
Touches(t) == IF NextOp(t)[1] = "storage" THEN {} ELSE {NextOp(t)[2]}

\* thread t waits for a lock another thread holds
Blocked(t) ==
    /\ NextOp(t)[1] = "acquire"
    /\ \E u \in ThreadIds : NextOp(t)[2] \in threads.held[u]

\* C19: in every interleaving no thread holds more than one lock, a thread
\* holding the buffer lock touches only the State Merge Buffer and a thread
\* holding the queue mutex only the queue, and the threads cannot deadlock: a
\* lock a thread waits for is held by a thread that is not waiting itself.
C19_LockDiscipline ==
    /\ \A t \in ThreadIds : Cardinality(threads.held[t]) <= 1
    /\ \A t \in ThreadIds : \A lock \in threads.held[t] : Touches(t) \subseteq {lock}
    /\ \A t \in ThreadIds :
          Blocked(t) => \E u \in ThreadIds : NextOp(t)[2] \in threads.held[u] /\ ~Blocked(u)

\* an ingestion thread merges under the buffer lock while the other ingestion
\* thread has the queue mutex and the flush thread waits for the buffer lock
C19_Witness ==
    /\ threads.held["mqtt"] = {"buffer"}
    /\ threads.held["traccar"] = {"queue"}
    /\ NextOp("flush") = <<"acquire", "buffer">>
    /\ NextOp("refresh") = <<"write", "cache">>

(***************************************************************************)
(* C20  Identifier uniqueness.                                             *)
(***************************************************************************)
\* C20: in every reachable state no two TrackerIdentifiers share the pair
\* (external_id, identifier_type) or the identkey, the identkey of every
\* identifier is its type code, "_" and its external id, in upper case, and every
\* identifier is bound to one Tracker, which exists.
C20_IdentifierUniqueness ==
    /\ \A a, b \in identifiers :
          \/ a = b
          \/ /\ a.identkey # b.identkey
             /\ a.external_id # b.external_id \/ a.identifier_type # b.identifier_type
    /\ \A ti \in identifiers :
          /\ ti.identifier_type \in TypeCodes
          /\ ti.external_id = upper(ti.external_id)
          /\ ti.identkey = upper(key_of(ti.identifier_type, ti.external_id))
          /\ ti.tracker \in DOMAIN trackers

\* a call whose insertion the unique constraint on (external_id, identifier_type)
\* rejected: the ship of its identtype and identid is registered to another
\* Tracker than the one the call created
C20_Witness ==
    /\ last.op = "resolve"
    /\ last.identity = Mislabelled(<<>>)
    /\ last.new_trackers = 1
    /\ last.new_identifiers = {}
    /\ \E ti \in identifiers :
          /\ ti.identifier_type = "MMSI"
          /\ ti.external_id = <<"A1">>
          /\ ti.tracker # Len(trackers)

(***************************************************************************)
(* C21  Field Mapper key handling.                                         *)
(***************************************************************************)
FlatData == flatten_multilevel(mapper.data)

\* the key has a target name and its value is in normalized under that name
Translated(k) ==
    /\ k \in DOMAIN mapper.mapping
    /\ mapper.mapping[k] # ""
    /\ mapper.mapping[k] \in DOMAIN mapper.result
    /\ mapper.result[mapper.mapping[k]] = FlatData[k]

\* the key is mapped to null and is not reported
DroppedByTable(k) ==
    /\ k \in DOMAIN mapper.mapping
    /\ mapper.mapping[k] = ""
    /\ k \notin mapper.unmapped

\* the key is not in the table, is reported and is not in normalized
Reported(k) ==
    /\ k \notin DOMAIN mapper.mapping
    /\ k \in mapper.unmapped
    /\ k \notin DOMAIN mapper.result

ExactlyOne(a, b, c) == (a /\ ~b /\ ~c) \/ (~a /\ b /\ ~c) \/ (~a /\ ~b /\ c)

\* the value of key k is None
NullValued(k) == FlatData[k] = NoneOf(k)

\* the value of key k is the empty string
EmptyValued(k) == k \notin IntKeys /\ FlatData[k] = ""

\* a later key of the payload has the same target as k and a value
Superseded(k) ==
    \E o \in DOMAIN FlatData :
        /\ o \in DOMAIN mapper.mapping
        /\ k \in DOMAIN mapper.mapping
        /\ mapper.mapping[o] = mapper.mapping[k]
        /\ ~NullValued(o)
        /\ KeyRank(k) < KeyRank(o)

\* C21 as stated: for every flattened source key exactly one of the three
\* outcomes holds, whatever its value.
C21_ThreeOutcomes ==
    mapper.pc = "done" =>
        \A k \in DOMAIN FlatData : ExactlyOne(Translated(k), DroppedByTable(k), Reported(k))

\* C21: for every flattened source key whose value is neither null nor empty and
\* whose target is not also the target of a later key of the payload that has a
\* value, exactly one of the three outcomes holds; a key of the table is never
\* listed in unmapped.
C21_KeyHandling ==
    mapper.pc = "done" =>
        \A k \in DOMAIN FlatData :
            /\ k \in DOMAIN mapper.mapping => k \notin mapper.unmapped
            /\ ~(NullValued(k) \/ EmptyValued(k) \/ Superseded(k)) =>
                  ExactlyOne(Translated(k), DroppedByTable(k), Reported(k))

\* a call in which each of the three outcomes happened, one of them for a key of
\* a nested dict
C21_Witness ==
    /\ mapper.pc = "done"
    /\ Translated("speed")
    /\ "battery" \in DOMAIN FlatData /\ DroppedByTable("battery")
    /\ "attributes.rssi" \in DOMAIN FlatData /\ Reported("attributes.rssi")
    /\ "foo" \in DOMAIN FlatData /\ Reported("foo")

(***************************************************************************)
(* C22  Field Mapper value filter.                                         *)
(***************************************************************************)
\* C22: no value of the normalized map is null or the empty string, whatever
\* the translation table maps its key to.
C22_ValueFilter ==
    mapper.pc = "done" =>
        \A target \in DOMAIN mapper.result :
            /\ mapper.result[target] # NoneOf(target)
            /\ target \notin IntKeys => mapper.result[target] # ""

(***************************************************************************)
(* C23  An empty normalized result does not abort the pipeline.            *)
(***************************************************************************)
\* the envelope of the step recorded in l is well formed, its identity resolved
\* and its data yields no mapped field
NothingMapped(l) ==
    /\ l.op = "process"
    /\ ~Malformed(l.msg)
    /\ l.result # NoTI
    /\ DOMAIN remap_keys(l.msg.data, DecoderFields) = {}

\* C23: a well-formed envelope whose identity resolves and whose data yields no
\* mapped field, whatever else the data contains, is appended to the message
\* queue, and the State Merge Buffer is left as it was.
C23_EmptyNormalized ==
    [][NothingMapped(last') =>
          /\ Len(message_queue') = Len(message_queue) + 1
          /\ message_queue'[Len(message_queue')].sha256_key = last'.msg.msghash
          /\ tracker_buffer' = tracker_buffer]_vars

(***************************************************************************)
(* Group membership: TrackerIdentifier.save() and the receivers of         *)
(* gpstracking/signals.py.                                                 *)
(***************************************************************************)
\* the external id of the identifiers that are created by hand
GroupExternalIds == {<<"A1">>}

\* the groups associated with the type of one of the tracker's identifiers
expected_group_ids(types, idents, tid) ==
    {g \in GroupIds : \E ti \in idents : ti.tracker = tid /\ ti.identifier_type \in types[g]}

\* ensure_identifier_type_groups_present: Tracker.groups after the receiver
\* ran for tracker tid
ensure_identifier_type_groups_present(types, idents, rows, tid) ==
    rows \cup {<<tid, g>> : g \in expected_group_ids(types, idents, tid)}

\* tracker.groups.add(*gs) and its m2m_changed receiver; without arguments
\* nothing is added and no signal is sent
groups_add(types, idents, rows, tid, gs) ==
    IF gs = {}
    THEN rows
    ELSE ensure_identifier_type_groups_present(
             types, idents, rows \cup {<<tid, g>> : g \in gs}, tid)

\* tracker.groups.remove(*gs) and its m2m_changed receiver
groups_remove(types, idents, rows, tid, gs) ==
    IF gs = {}
    THEN rows
    ELSE ensure_identifier_type_groups_present(
             types, idents, rows \ {<<tid, g>> : g \in gs}, tid)

\* the trackers owning an identifier of one of the types
trackers_of_types(idents, codes) ==
    {ti.tracker : ti \in {i \in idents : i.identifier_type \in codes}}

\* sync_trackers_on_identifiertype_change, post_add: types is
\* identifier_types after the addition
type_added(types, idents, rows, g, codes) ==
    rows \cup UNION {groups_add(types, idents, rows, t, {g}) :
                        t \in trackers_of_types(idents, codes)}

\* the members the post_remove branch takes out of group g
unlinked_trackers(types, idents, rows, g, codes) ==
    {t \in {r[1] : r \in {x \in rows : x[2] = g}} :
        /\ {ti.identifier_type : ti \in {i \in idents : i.tracker = t}} \cap types[g] = {}
        /\ \E ti \in idents : ti.tracker = t /\ ti.identifier_type \in codes}

\* variant: a type removal that leaves every member in the group
type_removed_keeping_members(types, idents, rows, g, codes) == rows

\* sync_trackers_on_identifiertype_change, post_remove: types is
\* identifier_types after the removal
type_removed(types, idents, rows, g, codes) ==
    LET gone == unlinked_trackers(types, idents, rows, g, codes)
    IN  {r \in rows : r[1] \notin gone}
        \cup UNION {{r \in groups_remove(types, idents, rows, t, {g}) : r[1] = t} :
                       t \in gone}

\* variant: a deletion whose membership repair still sees the deleted identifier
identifier_deleted_seen_by_repair(types, before, after, rows, ti) ==
    LET left == {g \in GroupIds :
                    /\ ti.identifier_type \in types[g]
                    /\ ~\E o \in after :
                          o.tracker = ti.tracker /\ o.identifier_type \in types[g]}
    IN  groups_remove(types, before, rows, ti.tracker, left)

\* remove_groups_on_identifier_delete: before and after are the identifiers
\* before and after the deletion of ti
identifier_deleted(types, before, after, rows, ti) ==
    LET left == {g \in GroupIds :
                    /\ ti.identifier_type \in types[g]
                    /\ ~\E o \in after :
                          o.tracker = ti.tracker /\ o.identifier_type \in types[g]}
    IN  groups_remove(types, after, rows, ti.tracker, left)

\* Tracker.objects.create(); the groups are explored with one tracker less
\* than the ingestion
group_tracker_create ==
    /\ Len(trackers) < MaxTrackers - 1
    /\ trackers' = tracker_create(CurrentStore).s.trackers
    /\ UNCHANGED <<identifiers, messages, tracker_cache, tracker_buffer, message_queue,
                   refresh, last, sym, threads, mapper, membership, mqtt, drain, race>>

\* TrackerIdentifier.objects.create(...): save() inserts the row and adds the
\* tracker to the groups of the identifier's type
identifier_create(tid, code, external_id) ==
    LET row == saved_identifier(tid, code, external_id)
        to_add == {g \in GroupIds : code \in membership.identifier_types[g]}
                  \ {r[2] : r \in {x \in membership.trackers : x[1] = tid}}
    IN  /\ tid \in DOMAIN trackers
        /\ ~violates_unique(CurrentStore, row)
        /\ identifiers' = identifiers \cup {row}
        /\ membership' =
               [membership EXCEPT
                   !.trackers = groups_add(membership.identifier_types, identifiers',
                                           @, tid, to_add),
                   !.change = NoChange]
        /\ UNCHANGED <<trackers, messages, tracker_cache, tracker_buffer, message_queue,
                       refresh, last, sym, threads, mapper, mqtt, drain, race>>

\* TrackerIdentifier.delete() and its post_delete receiver
identifier_delete(ti) ==
    /\ ti \in identifiers
    /\ identifiers' = identifiers \ {ti}
    /\ LET rows == identifier_deleted(membership.identifier_types, identifiers,
                                      identifiers', membership.trackers, ti)
       IN  membership' =
               [membership EXCEPT
                   !.trackers = rows,
                   !.explicit = @ \cap rows,
                   !.change = [op |-> "identifier_delete", code |-> ti.identifier_type,
                               gone |-> membership.trackers \ rows]]
    /\ UNCHANGED <<trackers, messages, tracker_cache, tracker_buffer, message_queue,
                   refresh, last, sym, threads, mapper, mqtt, drain, race>>

\* group.identifier_types.add(type) and its m2m_changed receiver
identifier_type_add(g, code) ==
    /\ code \notin membership.identifier_types[g]
    /\ LET types == [membership.identifier_types EXCEPT ![g] = @ \cup {code}]
       IN  membership' =
               [membership EXCEPT
                   !.identifier_types = types,
                   !.trackers = type_added(types, identifiers, @, g, {code}),
                   !.change = NoChange]
    /\ UNCHANGED <<trackers, identifiers, messages, tracker_cache, tracker_buffer,
                   message_queue, refresh, last, sym, threads, mapper, mqtt, drain, race>>

\* group.identifier_types.remove(type) and its m2m_changed receiver
identifier_type_remove(g, code) ==
    /\ code \in membership.identifier_types[g]
    /\ LET types == [membership.identifier_types EXCEPT ![g] = @ \ {code}]
           rows == type_removed(types, identifiers, membership.trackers, g, {code})
       IN  membership' =
               [membership EXCEPT
                   !.identifier_types = types,
                   !.trackers = rows,
                   !.explicit = @ \cap rows,
                   !.change = [op |-> "type_remove", code |-> code,
                               gone |-> membership.trackers \ rows]]
    /\ UNCHANGED <<trackers, identifiers, messages, tracker_cache, tracker_buffer,
                   message_queue, refresh, last, sym, threads, mapper, mqtt, drain, race>>

\* tracker.groups.add(group), by hand or from TrackerAdmin's groups field
tracker_groups_add(tid, g) ==
    /\ tid \in DOMAIN trackers
    /\ membership' =
           [membership EXCEPT
               !.trackers = groups_add(membership.identifier_types, identifiers,
                                       @, tid, {g}),
               !.explicit = {<<tid, g>>},
               !.change = NoChange]
    /\ UNCHANGED <<trackers, identifiers, messages, tracker_cache, tracker_buffer,
                   message_queue, refresh, last, sym, threads, mapper, mqtt, drain, race>>

\* tracker.groups.remove(group), by hand or from TrackerAdmin's groups field
tracker_groups_remove(tid, g) ==
    /\ <<tid, g>> \in membership.trackers
    /\ membership' =
           [membership EXCEPT
               !.trackers = groups_remove(membership.identifier_types, identifiers,
                                          @, tid, {g}),
               !.explicit = @ \ {<<tid, g>>},
               !.change = NoChange]
    /\ UNCHANGED <<trackers, identifiers, messages, tracker_cache, tracker_buffer,
                   message_queue, refresh, last, sym, threads, mapper, mqtt, drain, race>>

\* TrackerGroupAdmin, TrackerInline: a row of Tracker.groups.through is
\* deleted with the formset; m2m_changed is not sent for it
inline_delete(tid, g) ==
    /\ <<tid, g>> \in membership.trackers
    /\ membership' = [membership EXCEPT !.trackers = @ \ {<<tid, g>>},
                                        !.explicit = @ \ {<<tid, g>>},
                                        !.change = NoChange]
    /\ UNCHANGED <<trackers, identifiers, messages, tracker_cache, tracker_buffer,
                   message_queue, refresh, last, sym, threads, mapper, mqtt, drain, race>>

NextManagers ==
    \/ group_tracker_create
    \/ \E tid \in DOMAIN trackers, code \in GroupTypeCodes, x \in GroupExternalIds :
           identifier_create(tid, code, x)
    \/ \E ti \in identifiers : identifier_delete(ti)
    \/ \E g \in GroupIds, code \in GroupTypeCodes : identifier_type_add(g, code)
    \/ \E g \in GroupIds, code \in GroupTypeCodes : identifier_type_remove(g, code)
    \/ \E tid \in DOMAIN trackers, g \in GroupIds : tracker_groups_add(tid, g)
    \/ \E tid \in DOMAIN trackers, g \in GroupIds : tracker_groups_remove(tid, g)

\* The changes that go through the models and their related managers.
SpecManagers == Init /\ [][NextManagers]_vars

NextGroups ==
    \/ NextManagers
    \/ \E tid \in DOMAIN trackers, g \in GroupIds : inline_delete(tid, g)

\* Trackers, identifiers and groups administered through the models, the
\* related managers and the admin site.
SpecGroups == Init /\ [][NextGroups]_vars

(***************************************************************************)
(* Group membership properties.                                            *)
(***************************************************************************)
\* this step takes the type code out of the identifier_types of group g
TypeRemovedFrom(g, code) ==
    /\ code \in membership.identifier_types[g]
    /\ code \notin membership'.identifier_types[g]

\* tracker tid owns an identifier of one of the types
OwnsTypeIn(idents, tid, codes) ==
    \E ti \in idents : ti.tracker = tid /\ ti.identifier_type \in codes

\* C24: a tracker that was added to a group by hand stays in the group when
\* an identifier type is removed from the group's identifier_types, also
\* when the tracker owns an identifier of the removed type.
C24_DirectSurvives ==
    [][\A g \in GroupIds, code \in GroupTypeCodes :
          TypeRemovedFrom(g, code) =>
              \A r \in membership.explicit : r \in membership'.trackers]_vars

\* the same for the hand-added trackers that own no identifier of the removed type
C24_DirectSurvivesWithoutType ==
    [][\A g \in GroupIds, code \in GroupTypeCodes :
          TypeRemovedFrom(g, code) =>
              \A r \in membership.explicit :
                  ~OwnsTypeIn(identifiers, r[1], {code}) => r \in membership'.trackers]_vars

\* C25: every tracker that owns an identifier whose type is associated with
\* a group is a member of that group.
C25_AutoLink ==
    \A ti \in identifiers, g \in GroupIds :
        ti.identifier_type \in membership.identifier_types[g] =>
            <<ti.tracker, g>> \in membership.trackers

\* C26: when an identifier type is removed from a group's identifier_types,
\* every member of the group that owns an identifier of that type and no
\* identifier of a type still associated with the group leaves the group.
C26_TypeRemovalUnlinks ==
    [][\A g \in GroupIds, code \in GroupTypeCodes :
          TypeRemovedFrom(g, code) =>
              \A tid \in DOMAIN trackers :
                  /\ <<tid, g>> \in membership.trackers
                  /\ OwnsTypeIn(identifiers, tid, {code})
                  /\ ~OwnsTypeIn(identifiers, tid, membership'.identifier_types[g])
                  => <<tid, g>> \notin membership'.trackers]_vars

\* a type removal took a tracker out of a group and left a member that
\* owns an identifier of a type still associated with the group
C26_Witness ==
    /\ membership.change.op = "type_remove"
    /\ \E g \in GroupIds :
          /\ membership.identifier_types[g] # {}
          /\ \E r \in membership.change.gone : r[2] = g
          /\ \E r \in membership.trackers :
                r[2] = g /\ OwnsTypeIn(identifiers, r[1], membership.identifier_types[g])

\* C27: deleting a TrackerIdentifier takes its tracker out of every group
\* associated with the identifier's type in which the tracker has no other
\* identifier of an associated type, and the membership repair does not put
\* the tracker back.
C27_DeletionUnlinks ==
    [][\A ti \in identifiers \ identifiers', g \in GroupIds :
          /\ ti.identifier_type \in membership.identifier_types[g]
          /\ ~OwnsTypeIn(identifiers', ti.tracker, membership.identifier_types[g])
          => <<ti.tracker, g>> \notin membership'.trackers]_vars

\* a deletion took a tracker out of a group while the tracker kept another
\* identifier and, through it, its membership of the other group
C27_Witness ==
    /\ membership.change.op = "identifier_delete"
    /\ \E r \in membership.change.gone :
          /\ r \notin membership.trackers
          /\ \E o \in membership.trackers :
                /\ o[1] = r[1]
                /\ OwnsTypeIn(identifiers, r[1], membership.identifier_types[o[2]])

(***************************************************************************)
(* Direct calls of create_tracker_identifier.                              *)
(***************************************************************************)
\* the type codes and external ids the calls are made with
CreateCodes == {"MMSI", "ICAO", "XX"}

CreateExternalIds == {<<"A1">>, <<"a1">>, <<"X7">>}

\* GpsTrackingUtilDB.create_tracker_identifier(tracker, code, external_id);
\* TrackerIdentifier.save() also adds the tracker to the groups of the type
create_identifier_call(tid, code, external_id) ==
    LET r == create_tracker_identifier(CurrentStore, tid, code, external_id)
        created == r.s.identifiers \ identifiers
        to_add == {g \in GroupIds : code \in membership.identifier_types[g]}
                  \ {x[2] : x \in {y \in membership.trackers : y[1] = tid}}
    IN  /\ tid \in DOMAIN trackers
        /\ identifiers' = r.s.identifiers
        /\ last' = [NoLast EXCEPT !.op = "create", !.tid = tid,
                                  !.identity = Identity(<<>>, code, external_id, <<>>),
                                  !.result = r.ti, !.exc = r.exc,
                                  !.new_identifiers = created]
        /\ membership' =
               IF created = {}
               THEN membership
               ELSE [membership EXCEPT
                        !.trackers = groups_add(membership.identifier_types,
                                                identifiers', @, tid, to_add),
                        !.change = NoChange]
        /\ UNCHANGED <<trackers, messages, tracker_cache, tracker_buffer, message_queue,
                       refresh, sym, threads, mapper, mqtt, drain, race>>

NextCreate ==
    \/ group_tracker_create
    \/ \E tid \in DOMAIN trackers, code \in CreateCodes, x \in CreateExternalIds :
           create_identifier_call(tid, code, x)

\* Calls of create_tracker_identifier on trackers that exist.
SpecCreate == Init /\ [][NextCreate]_vars

\* the last step was a call of create_tracker_identifier with a known type code
CreateCalled == last.op = "create" /\ last.identity.identtype \in TypeCodes

\* C28: create_tracker_identifier with a known type code returns an
\* identifier of that type and that external id, new or existing, and never
\* none or an identifier with another external id.
C28_CreateResult ==
    CreateCalled =>
        /\ last.result # NoTI
        /\ last.result.identifier_type = last.identity.identtype
        /\ last.result.external_id = upper(last.identity.identid)

\* the same for the calls that do not run into a unique constraint
C28_CreateResultWithoutConflict ==
    CreateCalled /\ last.new_identifiers # {} =>
        /\ last.result \in identifiers
        /\ last.result.tracker = last.tid
        /\ last.result.identifier_type = last.identity.identtype
        /\ last.result.external_id = upper(last.identity.identid)

(***************************************************************************)
(* start_publisher and start_subscriber (utils/mqtt.py).  publish is the   *)
(* topic the registered publish_message closure was made for, "" when the  *)
(* entry has no "publish" key.                                             *)
(***************************************************************************)
\* client_name in mqtt_clients
is_registered(clients, client_name) == clients[client_name].registered

\* start_publisher(client_name, topic) followed by a call of what it
\* returned, as NmeaMqtt.publish does; connects tells whether
\* client.connect reaches the broker
start_publisher(client_name, topic, connects) ==
    LET entry == mqtt.clients[client_name]
        Call(reused, returned, on) ==
            [op |-> "start_publisher", client_name |-> client_name, topic |-> topic,
             reused |-> reused, returned |-> returned, published_on |-> on]
    IN  /\ IF is_registered(mqtt.clients, client_name)
           THEN IF entry.publish = ""
                THEN mqtt' = [mqtt EXCEPT !.call = Call(TRUE, "KeyError", "")]
                ELSE mqtt' = [mqtt EXCEPT !.call = Call(TRUE, "function", entry.publish)]
           ELSE IF connects
                THEN mqtt' = [mqtt EXCEPT
                                 !.clients[client_name] =
                                     [registered |-> TRUE, publish |-> topic,
                                      subscribed |-> ""],
                                 !.call = Call(FALSE, "function", topic)]
                ELSE mqtt' = [mqtt EXCEPT !.call = Call(FALSE, "None", "")]
        /\ UNCHANGED <<trackers, identifiers, messages, tracker_cache, tracker_buffer,
                       message_queue, refresh, last, sym, threads, mapper, membership, drain, race>>

\* start_subscriber(client_name, topic)
start_subscriber(client_name, topic, connects) ==
    LET Call(reused, returned) ==
            [op |-> "start_subscriber", client_name |-> client_name, topic |-> topic,
             reused |-> reused, returned |-> returned, published_on |-> ""]
    IN  /\ IF is_registered(mqtt.clients, client_name)
           THEN mqtt' = [mqtt EXCEPT !.call = Call(TRUE, "client")]
           ELSE IF connects
                THEN mqtt' = [mqtt EXCEPT
                                 !.clients[client_name] =
                                     [registered |-> TRUE, publish |-> "",
                                      subscribed |-> topic],
                                 !.call = Call(FALSE, "client")]
                ELSE mqtt' = [mqtt EXCEPT !.call = Call(FALSE, "None")]
        /\ UNCHANGED <<trackers, identifiers, messages, tracker_cache, tracker_buffer,
                       message_queue, refresh, last, sym, threads, mapper, membership, drain, race>>

NextMqtt ==
    \/ \E n \in ClientNames, t \in Topics, connects \in BOOLEAN :
           start_publisher(n, t, connects)
    \/ \E n \in ClientNames, t \in Topics, connects \in BOOLEAN :
           start_subscriber(n, t, connects)

\* Publishers and subscribers started under a few client names and topics.
SpecMqtt == Init /\ [][NextMqtt]_vars

\* the last call was start_publisher and the broker was reachable when a
\* client had to be made
PublisherStarted == mqtt.call.op = "start_publisher" /\ mqtt.call.returned # "None"

\* C29: start_publisher(client_name, topic) returns a function that
\* publishes on the given topic, also when the client registered under
\* client_name is reused.
C29_PublisherOnTopic ==
    PublisherStarted =>
        mqtt.call.returned = "function" /\ mqtt.call.published_on = mqtt.call.topic

\* the same for the calls that make a new client
C29_NewPublisherOnTopic ==
    PublisherStarted /\ ~mqtt.call.reused =>
        mqtt.call.returned = "function" /\ mqtt.call.published_on = mqtt.call.topic

\* a publisher reused for another topic publishes on the topic it was made for
C29_ReusedOnOtherTopic ==
    /\ PublisherStarted
    /\ mqtt.call.reused
    /\ mqtt.call.returned = "function"
    /\ mqtt.call.published_on # mqtt.call.topic

(***************************************************************************)
(* C30.  Equal timestamps in the merge.                                    *)
(***************************************************************************)
\* the fields the last envelope brings to the buffer
IncomingEntry == remap_keys(last.msg.data, DecoderFields)

IncomingPositionTs == or_received(IncomingEntry, "position_timestamp", last.msg.received)

IncomingMetaTs == or_received(IncomingEntry, "meta_timestamp", last.msg.received)

\* the timestamp of the group of field k is stored in the pending entry and
\* equals the one of the incoming envelope
TiedOn(k) ==
    IF k \in PositionalKeys
    THEN /\ "position_timestamp" \in DOMAIN PendingBefore
         /\ PendingBefore["position_timestamp"] = IncomingPositionTs
    ELSE /\ "meta_timestamp" \in DOMAIN PendingBefore
         /\ PendingBefore["meta_timestamp"] = IncomingMetaTs

\* C30: when the timestamp of an incoming field's group equals the one
\* stored in the pending entry (position_timestamp for positional fields,
\* meta_timestamp for the others), the incoming value replaces the pending one.
C30_TieFavoursIncoming ==
    MergedIntoPending =>
        \A k \in DOMAIN IncomingEntry :
            TiedOn(k) => PendingAfter[k] = IncomingEntry[k]

\* a tie on the position timestamp replaced a pending speed by another speed
\* while the meta timestamp of the envelope was older than the stored one
C30_Witness ==
    /\ MergedIntoPending
    /\ "speed" \in DOMAIN IncomingEntry /\ "speed" \in DOMAIN PendingBefore
    /\ TiedOn("speed")
    /\ PendingBefore["speed"] # IncomingEntry["speed"]
    /\ PendingAfter["speed"] = IncomingEntry["speed"]
    /\ "meta_timestamp" \in DOMAIN PendingBefore
    /\ PendingBefore["meta_timestamp"] > IncomingMetaTs

(***************************************************************************)
(* C31.  Fields the pending entry does not have yet.                       *)
(***************************************************************************)
\* the incoming envelope is older than the pending entry on both timestamps
OlderOnBoth ==
    /\ "position_timestamp" \in DOMAIN PendingBefore
    /\ "meta_timestamp" \in DOMAIN PendingBefore
    /\ IncomingPositionTs < PendingBefore["position_timestamp"]
    /\ IncomingMetaTs < PendingBefore["meta_timestamp"]

\* C31: a field that the pending entry lacks is added whatever the
\* timestamps of the incoming envelope are, and the fields of the pending
\* entry that the envelope does not carry stay as they were.
C31_LateFillIn ==
    MergedIntoPending =>
        /\ \A k \in DOMAIN IncomingEntry \ DOMAIN PendingBefore :
               k \in DOMAIN PendingAfter /\ PendingAfter[k] = IncomingEntry[k]
        /\ \A k \in DOMAIN PendingBefore \ DOMAIN IncomingEntry :
               k \in DOMAIN PendingAfter /\ PendingAfter[k] = PendingBefore[k]
        /\ DOMAIN PendingAfter = DOMAIN PendingBefore \cup DOMAIN IncomingEntry

\* an envelope older on both timestamps added a field to a pending entry
C31_Witness ==
    /\ MergedIntoPending
    /\ OlderOnBoth
    /\ \E k \in DOMAIN IncomingEntry \ DOMAIN PendingBefore :
           PendingAfter[k] = IncomingEntry[k]
    /\ PendingAfter["position_timestamp"] = PendingBefore["position_timestamp"]

(***************************************************************************)
(* C32.  Recency of the meta fields.                                       *)
(***************************************************************************)
\* the last envelope made the pending entry of its tracker, so every value of
\* the entry was written by it
CreatedPending ==
    /\ last.op = "process" /\ last.queued
    /\ last.pending_before = {}
    /\ last.tid \in DOMAIN tracker_buffer

\* the fields outside the positional group that an entry holds
MetaKeys(entry) == DOMAIN entry \ (PositionalKeys \cup {"id"})

\* C32: a non-positional field of a pending entry is replaced only by an
\* envelope whose meta timestamp (its meta_timestamp, or its receipt time
\* when it has none) is at least the meta timestamp of the update that
\* wrote the pending value.  Stated for the envelope that follows the one
\* which made the entry.
C32_MetaRecency ==
    [][(CreatedPending /\ MergedIntoPending' /\ last'.tid = last.tid) =>
          \A k \in MetaKeys(IncomingEntry') \cap MetaKeys(PendingBefore') :
              PendingAfter'[k] # PendingBefore'[k] => IncomingMetaTs' >= IncomingMetaTs]_vars

\* the same for the pending entries that store a meta_timestamp
C32_MetaRecencyWhenStored ==
    [][(CreatedPending /\ MergedIntoPending' /\ last'.tid = last.tid
        /\ "meta_timestamp" \in DOMAIN PendingBefore') =>
          \A k \in MetaKeys(IncomingEntry') \cap MetaKeys(PendingBefore') :
              PendingAfter'[k] # PendingBefore'[k] => IncomingMetaTs' >= IncomingMetaTs]_vars

(***************************************************************************)
(* C33.  The stored position timestamp.                                    *)
(***************************************************************************)
Max(a, b) == IF a >= b THEN a ELSE b

\* the last envelope was merged into a pending entry that stores a position_timestamp
MergedIntoStamped == MergedIntoPending /\ "position_timestamp" \in DOMAIN PendingBefore

\* C33: after an accumulate on a tracker already in the buffer, the pending
\* entry's position_timestamp is the maximum of its previous value and the
\* incoming position timestamp.
C33_StoredIsMaximum ==
    MergedIntoStamped =>
        PendingAfter["position_timestamp"] =
            Max(PendingBefore["position_timestamp"], IncomingPositionTs)

\* the consequence: the position_timestamp of a pending entry never decreases
C33_NeverDecreases ==
    MergedIntoStamped =>
        PendingAfter["position_timestamp"] >= PendingBefore["position_timestamp"]

\* the same for the envelopes that carry a position timestamp and a meta
\* timestamp, merged into an entry whose meta_timestamp is newer than theirs
C33_MaximumUnderNewerMeta ==
    (/\ MergedIntoStamped
     /\ "position_timestamp" \in DOMAIN IncomingEntry
     /\ "meta_timestamp" \in DOMAIN PendingBefore
     /\ PendingBefore["meta_timestamp"] > IncomingMetaTs) =>
        PendingAfter["position_timestamp"] =
            Max(PendingBefore["position_timestamp"], IncomingPositionTs)

(***************************************************************************)
(* C34.  Grouping of the tracker updates of a tick.                        *)
(***************************************************************************)
\* the bulk updates of the last tick that hold tracker tid
BulkUpdatesOf(tid) == {u \in last.bulk_updates : tid \in u.trackers}

\* the last tick went through the tracker updates
UpdatingTick == last.op = "flush" /\ last.exc = ""

\* C34: in a flush tick every tracker with a changed field is in exactly one
\* bulk update, whose column list is that tracker's set of changed fields;
\* trackers with the same set share the bulk update; a tracker without a
\* changed field, or missing from storage, is in none and its row stays.
C34_FlushGrouping ==
    UpdatingTick =>
        /\ \A tid \in DOMAIN last.flushed :
              IF HadChanges(tid)
              THEN /\ Cardinality(BulkUpdatesOf(tid)) = 1
                   /\ \A u \in BulkUpdatesOf(tid) :
                         /\ u.fields = changed_fields(last.rows_before[tid], last.flushed[tid])
                         /\ u.ok => Written(tid)
              ELSE /\ BulkUpdatesOf(tid) = {}
                   /\ tid \in DOMAIN trackers => trackers[tid] = last.rows_before[tid]
        /\ \A u1, u2 \in last.bulk_updates : u1.fields = u2.fields => u1 = u2
        /\ \A u \in last.bulk_updates : u.trackers \subseteq DOMAIN last.flushed

\* a tick with a bulk update shared by two trackers, a second bulk update
\* with another column list, both successful
C34_Witness ==
    /\ UpdatingTick
    /\ \E u1, u2 \in last.bulk_updates :
          /\ u1.fields # u2.fields
          /\ Cardinality(u1.trackers) = 2
          /\ u1.ok /\ u2.ok
          /\ \A tid \in u1.trackers \cup u2.trackers : Written(tid)

\* a tick that drained the entry of a tracker none of whose fields changed
C34_UnchangedSkipped ==
    /\ UpdatingTick
    /\ \E tid \in DOMAIN last.flushed : ~HadChanges(tid) /\ BulkUpdatesOf(tid) = {}
    /\ last.bulk_updates # {}

(***************************************************************************)
(* Ingestion threads and the flush thread around a drain.  The statements  *)
(* inside `with buffer_lock_tracker` are one step; Queue.put and           *)
(* Queue.get_nowait are one step each.                                     *)
(***************************************************************************)
\* the envelopes of the threads: message i brings a field of its own
DrainData ==
    <<[speed |-> 5], [shipname |-> "A"], [name |-> "N"], [category |-> "ship"],
      [rssi |-> 7]>>

DrainHash == <<"h1", "h2", "h3", "h4", "h5">>

DrainMsg(i) ==
    Envelope(DrainHash[i], 100, IF i % 2 = 1 THEN KnownShip ELSE OtherShip, DrainData[i])

\* the tracker message i resolves to, once it is resolved
DrainTracker(i) ==
    find_tracker_identifier_by_identkey(
        CurrentStore, upper(DrainMsg(i).identity.identkey)).tracker

\* the field of the pending entry that message i writes
DrainField(i) == CHOOSE k \in DOMAIN remap_keys(DrainData[i], DecoderFields) : TRUE

\* a counter of the batches a message was in, which stops at 2
Counted(n) == IF n < 2 THEN n + 1 ELSE n

\* variant: the buffer is copied and not cleared
snapshot_keeping(buffer) == [items |-> buffer, left |-> buffer]

\* tracker_items = list(tracker_buffer.values()); tracker_buffer.clear()
snapshot_and_clear(buffer) == [items |-> buffer, left |-> <<>>]

\* GpstrackingConfig.ready: outside the main process nothing starts; inside it
\* start_save_loop starts a flush loop, start_mqtt_subscriber starts another
\* one once the subscriber is connected, and the Traccar threads start
ready(run_main, connects) ==
    /\ ~drain.started
    /\ drain' = [drain EXCEPT
                    !.started = TRUE,
                    !.subscribed = run_main /\ connects,
                    !.flush_pc =
                        [f \in Flushers |->
                            IF run_main /\ (f = "ready" \/ connects) THEN "sleep" ELSE "off"]]
    /\ UNCHANGED <<trackers, identifiers, messages, tracker_cache, tracker_buffer,
                   message_queue, refresh, last, sym, threads, mapper, membership, mqtt, race>>

\* the thread delivers envelopes: the MQTT callback is set by
\* start_mqtt_subscriber, the Traccar threads are started by ready
delivers(t) ==
    IF t = "mqtt" THEN drain.subscribed ELSE drain.flush_pc["ready"] # "off"

\* process_mqtt_message up to message_queue.put: the envelope is resolved and
\* its row is put in the queue
ingest_put(t, i) ==
    LET m == DrainMsg(i)
        r == get_or_create_tracker_identifier(CurrentStore, m.identity)
    IN  /\ delivers(t)
        /\ drain.cur[t] = 0
        /\ i \notin drain.sent
        /\ ~incomplete(m)
        /\ r.ti # NoTI
        /\ Len(r.s.trackers) <= MaxTrackers
        /\ trackers' = r.s.trackers
        /\ identifiers' = r.s.identifiers
        /\ message_queue' = Append(message_queue, msg_entry(r.ti, m, NonePoint, NoneInt))
        /\ drain' = [drain EXCEPT !.cur[t] = i, !.sent = @ \cup {i}]
        /\ UNCHANGED <<messages, tracker_cache, tracker_buffer, refresh, last, sym,
                       threads, mapper, membership, mqtt, race>>

\* process_mqtt_message after the put: the merge inside `with buffer_lock_tracker`
ingest_merge(t) ==
    LET i == drain.cur[t]
        m == DrainMsg(i)
    IN  /\ i # 0
        /\ tracker_buffer' = accumulate(tracker_buffer, DrainTracker(i),
                                        remap_keys(m.data, DecoderFields), m.received)
        /\ drain' = [drain EXCEPT !.cur[t] = 0, !.merged = @ \cup {i}]
        /\ UNCHANGED <<trackers, identifiers, messages, tracker_cache, message_queue,
                       refresh, last, sym, threads, mapper, membership, mqtt, race>>

\* save_buffer_to_db: one message_queue.get_nowait() of the drain loop
flush_get(f) ==
    /\ drain.flush_pc[f] \in {"sleep", "drain"}
    /\ message_queue # <<>>
    /\ message_queue' = Tail(message_queue)
    /\ drain' = [drain EXCEPT
                    !.flush_pc[f] = "drain",
                    !.msg_items[f] = Append(@, Head(message_queue)),
                    !.in_batches =
                        [i \in DOMAIN @ |->
                            IF DrainHash[i] = Head(message_queue).sha256_key
                            THEN Counted(@[i]) ELSE @[i]]]
    /\ UNCHANGED <<trackers, identifiers, messages, tracker_cache, tracker_buffer,
                   refresh, last, sym, threads, mapper, membership, mqtt, race>>

\* save_buffer_to_db: the queue is found empty and the rows are inserted
flush_insert(f) ==
    /\ drain.flush_pc[f] \in {"sleep", "drain"}
    /\ message_queue = <<>>
    /\ messages' = bulk_create(messages, drain.msg_items[f])
    /\ drain' = [drain EXCEPT !.flush_pc[f] = "inserted", !.msg_items[f] = <<>>]
    /\ UNCHANGED <<trackers, identifiers, tracker_cache, tracker_buffer, message_queue,
                   refresh, last, sym, threads, mapper, membership, mqtt, race>>

\* save_buffer_to_db: the buffer is copied and cleared inside
\* `with buffer_lock_tracker`
flush_swap(f) ==
    LET taken == snapshot_and_clear(tracker_buffer)
        InItems(i) ==
            /\ i \in drain.merged
            /\ DrainTracker(i) \in DOMAIN taken.items
            /\ DrainField(i) \in DOMAIN taken.items[DrainTracker(i)]
    IN  /\ drain.flush_pc[f] = "inserted"
        /\ tracker_buffer' = taken.left
        /\ drain' = [drain EXCEPT
                        !.flush_pc[f] = "swapped",
                        !.tracker_items[f] = taken.items,
                        !.in_flushes =
                            [i \in DOMAIN @ |-> IF InItems(i) THEN Counted(@[i]) ELSE @[i]]]
        /\ UNCHANGED <<trackers, identifiers, messages, tracker_cache, message_queue,
                       refresh, last, sym, threads, mapper, membership, mqtt, race>>

\* save_buffer_to_db: the drained entries are written to the Tracker rows
flush_update(f) ==
    /\ drain.flush_pc[f] = "swapped"
    /\ trackers' = apply_buffer(trackers, drain.tracker_items[f])
    /\ drain' = [drain EXCEPT !.flush_pc[f] = "sleep", !.tracker_items[f] = <<>>]
    /\ UNCHANGED <<identifiers, messages, tracker_cache, tracker_buffer, message_queue,
                   refresh, last, sym, threads, mapper, membership, mqtt, race>>

NextDrain ==
    \/ \E run_main, connects \in BOOLEAN : ready(run_main, connects)
    \/ \E t \in Ingesters, i \in 1..MaxQueue : ingest_put(t, i)
    \/ \E t \in Ingesters : ingest_merge(t)
    \/ \E f \in Flushers : flush_get(f)
    \/ \E f \in Flushers : flush_insert(f)
    \/ \E f \in Flushers : flush_swap(f)
    \/ \E f \in Flushers : flush_update(f)

\* Start-up, then the ingestion threads and the flush loops it started,
\* interleaved at every queue operation and every locked block.
SpecDrain == Init /\ [][NextDrain]_vars

\* the rows of message i waiting in the queue
InQueue(i) ==
    Cardinality({n \in DOMAIN message_queue : message_queue[n].sha256_key = DrainHash[i]})

\* the field update of message i is in the State Merge Buffer
InBuffer(i) ==
    IF /\ i \in drain.merged
       /\ DrainTracker(i) \in DOMAIN tracker_buffer
       /\ DrainField(i) \in DOMAIN tracker_buffer[DrainTracker(i)]
    THEN 1 ELSE 0

\* C35: under every interleaving of the ingestion threads with the flush
\* ticks, each enqueued message is either still in the queue or in exactly
\* one drained batch, and each accumulated field update is either still in
\* the buffer or in exactly one drained batch, never both and never neither.
C35_DrainExactlyOnce ==
    \A i \in 1..MaxQueue :
        /\ InQueue(i) + drain.in_batches[i] = (IF i \in drain.sent THEN 1 ELSE 0)
        /\ InBuffer(i) + drain.in_flushes[i] = (IF i \in drain.merged THEN 1 ELSE 0)

\* between the swap and the update of a tick: the row of a message was
\* drained in this tick, its field update was merged after the swap and
\* waits in the buffer, and the update of another message is in the batch
C35_Witness ==
    /\ drain.flush_pc["ready"] = "swapped"
    /\ \E i, j \in 1..MaxQueue :
          /\ i # j
          /\ drain.in_batches[i] = 1 /\ InBuffer(i) = 1 /\ drain.in_flushes[i] = 0
          /\ drain.in_flushes[j] = 1 /\ InBuffer(j) = 0
          /\ DrainTracker(i) = DrainTracker(j)

\* the flush loops that start-up has started
FlushLoops == {f \in Flushers : drain.flush_pc[f] # "off"}

\* the flush loops that are inside a tick
InTick == {f \in Flushers : drain.flush_pc[f] \notin {"off", "sleep"}}

\* the trackers whose durable row the tick of loop f is about to write
RowsOfTick(f) ==
    IF drain.flush_pc[f] = "swapped" THEN DOMAIN drain.tracker_items[f] ELSE {}

\* C40: application start-up starts exactly one flush loop thread, so at most
\* one flush tick executes at any time and two ticks never read-modify-write
\* the durable row of the same tracker concurrently.
C40_SingleFlushDriver ==
    /\ Cardinality(FlushLoops) <= 1
    /\ Cardinality(InTick) <= 1
    /\ \A f, g \in Flushers : f # g => RowsOfTick(f) \cap RowsOfTick(g) = {}

\* what start-up does establish: a flush loop runs whenever an ingestion
\* thread delivers, and the loop of start_mqtt_subscriber is a second one
C40_LoopPerSubscriber ==
    /\ (\E t \in Ingesters : delivers(t)) => "ready" \in FlushLoops
    /\ drain.subscribed <=> "subscriber" \in FlushLoops

\* no two ticks hold drained entries of the same tracker at the same time
C40_TwoTicksOneRow ==
    \A f, g \in Flushers : f # g => RowsOfTick(f) \cap RowsOfTick(g) = {}

\* no two ticks execute at the same time
C40_OneTickAtATime == Cardinality(InTick) <= 1

(***************************************************************************)
(* Secondary identity decomposition.                                       *)
(***************************************************************************)
\* a ship and a plane, each with and without a vendor id: one without a
\* prefix, one that embeds ADSB, and one that embeds a prefix of the list
\* that is not a type code of the vocabulary
LinkIdentities ==
    {Identity(DeclaredKey("MMSI", <<"A1">>), "MMSI", <<"A1">>, tc) : tc \in VendorIds}
    \cup {Identity(DeclaredKey("ICAO", <<"A1">>), "ICAO", <<"A1">>, tc) :
             tc \in {<<>>, <<"ADSB", "-", "A1">>}}
    \cup {Identity(DeclaredKey("MMSI", <<"B2">>), "MMSI", <<"B2">>, <<"ADSB", "-", "A1">>)}
    \cup {UnknownSecondary}

NextLink ==
    \/ \E identity \in LinkIdentities : Resolve(identity)
    \/ refresh_tracker_cache

\* Resolve calls with vendor ids of every shape, and the cache refresh.
SpecLink == Init /\ [][NextLink]_vars

\* the vendor id of the last call, as the resolver sees it
LinkedVendorId == upper(last.identity.tcUniqueId)

\* the identifier rows that existed before the last call
IdentifiersBefore == identifiers \ last.new_identifiers

\* the last resolve call linked its vendor id: it created the TCUID identifier
Linked ==
    /\ last.op = "resolve"
    /\ last.identity.tcUniqueId # <<>>
    /\ \E ti \in last.new_identifiers : ti.identkey = key_of("TCUID", LinkedVendorId)

\* the tracker the vendor id was linked to
LinkTracker ==
    (CHOOSE ti \in last.new_identifiers : ti.identkey = key_of("TCUID", LinkedVendorId)).tracker

\* PREFIX and ID of a vendor id PREFIX-ID, ADSB read as ICAO
SecondarySplit == split_once(replace_ADSB(LinkedVendorId))

HasSecondaryPrefix ==
    /\ Len(SecondarySplit) > 1
    /\ Len(SecondarySplit[1]) = 1
    /\ SecondarySplit[1][1] \in SecondaryPrefixes

\* the type code the secondary identifier is stored under
SecondaryType ==
    IF SecondarySplit[1][1] = "DMR" THEN "DMR_RN" ELSE SecondarySplit[1][1]

SecondaryKey == key_of(SecondaryType, SecondarySplit[2])

\* the keys the call may create besides the secondary one
LinkOwnKeys ==
    {key_of("TCUID", LinkedVendorId)}
    \cup {key_of(Up(last.identity.identtype), upper(last.identity.identid))}

\* the call created the secondary identifier, on the tracker it linked
SecondaryCreated ==
    \E ti \in last.new_identifiers :
        /\ ti.identkey = SecondaryKey
        /\ ti.identifier_type = SecondaryType
        /\ ti.tracker = LinkTracker

\* the secondary key existed when the vendor id was decomposed: before the
\* call, or as the declared key the call created first
SecondaryExisted ==
    \/ \E ti \in IdentifiersBefore : ti.identkey = SecondaryKey
    \/ /\ SecondaryKey = key_of(Up(last.identity.identtype), upper(last.identity.identid))
       /\ SecondaryKey # key_of("TCUID", LinkedVendorId)

\* the rows that existed before the call are still there, unchanged, and no
\* second row has the secondary key
SecondaryUntouched ==
    /\ IdentifiersBefore \subseteq identifiers
    /\ Cardinality({ti \in identifiers : ti.identkey = SecondaryKey}) <= 1

\* C36 as claimed: when the resolver links a vendor unique id PREFIX-ID with
\* PREFIX in {ICAO, MMSI, DMR, GMS} (ADSB read as ICAO, DMR stored as DMR_RN),
\* it creates the secondary identifier PREFIX_ID on the same tracker if and
\* only if no identifier with that identkey exists yet; an existing one, on
\* whichever tracker, is left untouched; a vendor id without such a prefix
\* creates no secondary identifier.
C36_Decomposition ==
    Linked =>
        IF HasSecondaryPrefix
        THEN /\ SecondaryCreated \/ SecondaryExisted
             /\ SecondaryExisted =>
                   /\ KeysOf(last.new_identifiers) \subseteq LinkOwnKeys
                   /\ SecondaryUntouched
        ELSE KeysOf(last.new_identifiers) \subseteq LinkOwnKeys

\* C36 amended: the same, for a PREFIX (DMR_RN for DMR) that is a type code of
\* the vocabulary; for a PREFIX that is not, the secondary identifier is not
\* created, the call returns not-found and the TCUID identifier stays.
C36_DecompositionOfKnownType ==
    Linked =>
        IF HasSecondaryPrefix
        THEN /\ SecondaryType \in TypeCodes => SecondaryCreated \/ SecondaryExisted
             /\ SecondaryType \notin TypeCodes /\ ~SecondaryExisted =>
                   /\ ~SecondaryCreated
                   /\ last.result = NoTI /\ last.exc = "DoesNotExist"
             /\ SecondaryCreated => ~(\E ti \in IdentifiersBefore : ti.identkey = SecondaryKey)
             /\ SecondaryExisted =>
                   /\ KeysOf(last.new_identifiers) \subseteq LinkOwnKeys
                   /\ SecondaryUntouched
        ELSE KeysOf(last.new_identifiers) \subseteq LinkOwnKeys

\* a vendor id ADSB-A1 is linked to a tracker while ICAO_A1 belongs to another
\* tracker: the existing identifier stays where it is and none is created
C36_Witness ==
    /\ Linked
    /\ HasSecondaryPrefix
    /\ \E ti \in IdentifiersBefore : ti.identkey = SecondaryKey /\ ti.tracker # LinkTracker
    /\ ~SecondaryCreated

\* a vendor id ADSB-A1 is linked and ICAO_A1 is created with it
C36_Created ==
    /\ Linked
    /\ HasSecondaryPrefix
    /\ SecondaryCreated
    /\ SecondaryKey \notin LinkOwnKeys

\* a vendor id without a prefix of the list is linked
C36_NoPrefix == Linked /\ ~HasSecondaryPrefix

(***************************************************************************)
(* Freshness of the durable rows across flush ticks.                       *)
(***************************************************************************)
\* position reports of one tracker, in either order of their fix times, and a
\* name report
DurableMsgs ==
    {Envelope("h1", 100, KnownShip, [speed |-> 5, fixtime |-> 100]),
     Envelope("h2", 100, KnownShip, [speed |-> 3, fixtime |-> 50]),
     Envelope("h3", 100, KnownShip, [speed |-> 3]),
     Envelope("h4", 100, KnownShip, [shipname |-> "A", metatime |-> 100])}

NextDurable ==
    \/ \E m \in DurableMsgs : process_mqtt_message(m)
    \/ save_buffer_to_db

\* Position reports arriving in any order, with flush ticks between them.
SpecDurable == Init /\ [][NextDurable]_vars

\* the last step was a flush tick that drained an entry of tracker tid
FlushedEntry(tid) ==
    /\ last.op = "flush"
    /\ last.exc = ""
    /\ tid \in DOMAIN last.flushed
    /\ tid \in DOMAIN last.rows_before

\* the entry drained for tid carries a position_timestamp older than the row's
StaleEntry(tid) ==
    /\ FlushedEntry(tid)
    /\ "position_timestamp" \in DOMAIN last.flushed[tid]
    /\ last.flushed[tid]["position_timestamp"] # NoneInt
    /\ last.rows_before[tid].position_timestamp # NoneInt
    /\ last.flushed[tid]["position_timestamp"] < last.rows_before[tid].position_timestamp

\* C37: the position_timestamp of a durable Tracker row never decreases from
\* one flush tick to a later one; a delayed message with an older
\* position_timestamp that arrives after the newer state was flushed does not
\* overwrite the row's positional fields.
C37_DurableFreshness ==
    \A tid \in DOMAIN trackers :
        /\ FlushedEntry(tid) /\ last.rows_before[tid].position_timestamp # NoneInt =>
              trackers[tid].position_timestamp >= last.rows_before[tid].position_timestamp
        /\ StaleEntry(tid) =>
              /\ trackers[tid].speed = last.rows_before[tid].speed
              /\ trackers[tid].position = last.rows_before[tid].position
              /\ trackers[tid].position_timestamp = last.rows_before[tid].position_timestamp

\* what the tick does: the row takes the position_timestamp of the drained
\* entry whenever the entry carries one, older or newer
C37_RowFollowsPending ==
    \A tid \in DOMAIN trackers :
        FlushedEntry(tid) /\ "position_timestamp" \in DOMAIN last.flushed[tid]
                          /\ last.flushed[tid]["position_timestamp"] # NoneInt =>
            trackers[tid].position_timestamp = last.flushed[tid]["position_timestamp"]

\* a tick drained an entry older than the row
C37_StaleDrained == \E tid \in DOMAIN trackers : StaleEntry(tid)

(***************************************************************************)
(* Trackers created by a resolve call and the identifiers they own.        *)
(***************************************************************************)
\* the Tracker rows the last resolve call created
CreatedTrackers == (Len(trackers) - last.new_trackers + 1)..Len(trackers)

Owns(tid) == \E ti \in identifiers : ti.tracker = tid

\* C38: whenever a resolve call returns, with a result or with not-found
\* after an unknown type code or a storage error, every Tracker that this call
\* created owns at least one TrackerIdentifier; a dropped message leaves no new
\* Tracker behind.
C38_NoOrphanTrackers ==
    last.op = "resolve" =>
        /\ \A tid \in CreatedTrackers : Owns(tid)
        /\ last.result = NoTI /\ last.exc = "DoesNotExist" => last.new_trackers = 0

\* what the resolver does establish: a call that returns an identifier leaves
\* every Tracker it created with an identifier
C38_OwnedWhenReturned ==
    last.op = "resolve" /\ last.result # NoTI => \A tid \in CreatedTrackers : Owns(tid)

\* a call that created a Tracker returned not-found
C38_CreatedAndDropped ==
    last.op = "resolve" /\ last.result = NoTI /\ last.new_trackers > 0

(***************************************************************************)
(* Two ingestion threads inside get_or_create_tracker_identifier, step by  *)
(* step: the lookup, the insert of the Tracker and the insert of the       *)
(* TrackerIdentifier are separate statements and no lock or transaction    *)
(* spans them.  The identities carry a declared key and no vendor id.      *)
(***************************************************************************)
RaceIdentities == {KnownShip, OtherShip, Plane}

\* the call of thread t starts: find_tracker_identifier_by_identkey(identkey)
resolve_lookup(t, identity) ==
    /\ race.pc[t] \in {"idle", "returned"}
    /\ race' = [race EXCEPT
                   !.pc[t] = "looked",
                   !.identity[t] = identity,
                   !.found[t] =
                       find_tracker_identifier_by_identkey(CurrentStore,
                                                           upper(identity.identkey)),
                   !.tracker[t] = 0,
                   !.result[t] = NoTI]
    /\ UNCHANGED <<trackers, identifiers, messages, tracker_cache, tracker_buffer,
                   message_queue, refresh, last, sym, threads, mapper, membership,
                   mqtt, drain>>

\* the lookup found the identifier: tracker = ti_identkey.tracker; return ti_identkey
resolve_known(t) ==
    /\ race.pc[t] = "looked"
    /\ race.found[t] # NoTI
    /\ race' = [race EXCEPT !.pc[t] = "returned", !.result[t] = race.found[t]]
    /\ UNCHANGED <<trackers, identifiers, messages, tracker_cache, tracker_buffer,
                   message_queue, refresh, last, sym, threads, mapper, membership,
                   mqtt, drain>>

\* the lookup found nothing: tracker = Tracker.objects.create()
resolve_create_tracker(t) ==
    LET c == tracker_create(CurrentStore)
    IN  /\ race.pc[t] = "looked"
        /\ race.found[t] = NoTI
        /\ Len(trackers) < MaxTrackers
        /\ trackers' = c.s.trackers
        /\ race' = [race EXCEPT !.pc[t] = "created", !.tracker[t] = c.tid]
        /\ UNCHANGED <<identifiers, messages, tracker_cache, tracker_buffer,
                       message_queue, refresh, last, sym, threads, mapper, membership,
                       mqtt, drain>>

\* ti_identkey = create_tracker_identifier(tracker, identtype, identid); return
resolve_create_identifier(t) ==
    LET identity == race.identity[t]
        r == create_tracker_identifier(CurrentStore, race.tracker[t],
                                       Up(identity.identtype), upper(identity.identid))
    IN  /\ race.pc[t] = "created"
        /\ identifiers' = r.s.identifiers
        /\ race' = [race EXCEPT !.pc[t] = "returned",
                                !.result[t] = IF r.exc # "" THEN NoTI ELSE r.ti]
        /\ UNCHANGED <<trackers, messages, tracker_cache, tracker_buffer,
                       message_queue, refresh, last, sym, threads, mapper, membership,
                       mqtt, drain>>

NextRace ==
    \/ \E t \in Ingesters, identity \in RaceIdentities : resolve_lookup(t, identity)
    \/ \E t \in Ingesters : resolve_known(t)
    \/ \E t \in Ingesters : resolve_create_tracker(t)
    \/ \E t \in Ingesters : resolve_create_identifier(t)

\* Two ingestion threads resolving identities, interleaved at every storage
\* statement of the resolver.
SpecRace == Init /\ [][NextRace]_vars

\* both threads returned from calls that looked the same unknown identity up
\* before either had inserted its identifier
BothSawUnknown(t, u) ==
    /\ t # u
    /\ race.pc[t] = "returned" /\ race.pc[u] = "returned"
    /\ race.identity[t] = race.identity[u]
    /\ race.found[t] = NoTI /\ race.found[u] = NoTI

\* C39: when two ingestion threads concurrently resolve the same previously
\* unknown declared identity, in every interleaving exactly one Tracker is
\* created in total, both calls return a TrackerIdentifier, and both returned
\* identifiers belong to that one Tracker.
C39_ConcurrentFirstSighting ==
    \A t, u \in Ingesters :
        BothSawUnknown(t, u) =>
            /\ race.tracker[t] = race.tracker[u]
            /\ race.result[t] # NoTI /\ race.result[u] # NoTI
            /\ race.result[t].tracker = race.result[u].tracker

\* what the resolver does establish: a call whose lookup found the identifier
\* creates no Tracker and returns that identifier, and no identkey is ever
\* stored twice
C39_KnownIsReturned ==
    /\ \A t \in Ingesters :
          race.pc[t] = "returned" /\ race.found[t] # NoTI =>
              /\ race.tracker[t] = 0
              /\ race.result[t] = race.found[t]
              /\ race.result[t] \in identifiers
    /\ \A a, b \in identifiers : a.identkey = b.identkey => a = b

\* two calls for the same unknown identity overlapped and both returned
C39_Overlapped == \E t, u \in Ingesters : BothSawUnknown(t, u)

====
